---- MODULE Spec2Model ----
(***************************************************************************)
(* Model of hugo2wpcom's image rewriter, process_html_images               *)
(* (src/src/hugo2wpcom/html_processor.py).                                 *)
(*                                                                         *)
(* Strings are sequences of one-character strings, so that prefix tests,   *)
(* URL splitting, percent-decoding and path arithmetic are computed as the *)
(* Python code computes them.  An HTML document is a sequence of nodes;    *)
(* each node carries the way its tag was written in the text (its "form"), *)
(* so that equality of two documents is equality of their bytes.           *)
(***************************************************************************)
EXTENDS Integers, Sequences, FiniteSets, TLC

(***************************************************************************)
(* Bounds                                                                  *)
(***************************************************************************)
\* Largest number of nodes in an input document.
MaxNodes == 2

(***************************************************************************)
(* Generic string helpers (Python str methods)                             *)
(***************************************************************************)
\* str.startswith(p)
StartsWith(s, p) ==
    /\ Len(s) >= Len(p)
    /\ SubSeq(s, 1, Len(p)) = p

\* s[n:]
Drop(s, n) == IF n >= Len(s) THEN <<>> ELSE SubSeq(s, n + 1, Len(s))

\* s[:n]
Take(s, n) == IF n <= 0 THEN <<>> ELSE SubSeq(s, 1, IF n > Len(s) THEN Len(s) ELSE n)

\* str.find(c): 1-based index of the first c in s, 0 when there is none
Find(s, c) ==
    IF \E k \in 1..Len(s) : s[k] = c
    THEN CHOOSE k \in 1..Len(s) : s[k] = c /\ \A j \in 1..(k - 1) : s[j] # c
    ELSE 0

\* str.rfind(c): 1-based index of the last c in s, 0 when there is none
RFind(s, c) ==
    IF \E k \in 1..Len(s) : s[k] = c
    THEN CHOOSE k \in 1..Len(s) : s[k] = c /\ \A j \in (k + 1)..Len(s) : s[j] # c
    ELSE 0

\* first index >= from holding one of the characters cs, 0 when there is none
FindAnyFrom(s, cs, from) ==
    IF \E k \in from..Len(s) : s[k] \in cs
    THEN CHOOSE k \in from..Len(s) : s[k] \in cs /\ \A j \in from..(k - 1) : s[j] \notin cs
    ELSE 0

\* str.lstrip('/')
RECURSIVE LStripSlash(_)
LStripSlash(s) ==
    IF s # <<>> /\ s[1] = "/" THEN LStripSlash(Tail(s)) ELSE s

(***************************************************************************)
(* urllib.parse.urlparse(...).path and urllib.parse.unquote                *)
(***************************************************************************)
Letters == {"a", "b", "c", "f", "h", "i", "n", "p", "s", "t", "u", "v", "w"}
SchemeChars == Letters \cup {"0", "2", "3", "+", "-", "."}

\* schemes for which urlparse splits ";params" off the path (uses_params)
uses_params == {<<>>, <<"f", "t", "p">>, <<"h", "t", "t", "p">>,
                <<"h", "t", "t", "p", "s">>}

\* urlsplit, step 1: a leading "scheme:" is split off
SchemeLen(url) ==
    LET k == Find(url, ":")
    IN  IF k > 1 /\ url[1] \in Letters /\ \A j \in 1..(k - 1) : url[j] \in SchemeChars
        THEN k - 1 ELSE 0

\* urlsplit, step 2: "//netloc" is split off, up to the next "/", "?" or "#"
AfterNetloc(url) ==
    IF StartsWith(url, <<"/", "/">>)
    THEN LET k == FindAnyFrom(url, {"/", "?", "#"}, 3)
         IN  IF k = 0 THEN <<>> ELSE Drop(url, k - 1)
    ELSE url

\* urlsplit, steps 3 and 4: "#fragment", then "?query", are split off
BeforeChar(url, c) ==
    LET k == Find(url, c) IN IF k = 0 THEN url ELSE Take(url, k - 1)

\* urlparse's _splitparams: ";params" of the last path segment is split off
SplitParams(url) ==
    LET slash == RFind(url, "/")
        k     == FindAnyFrom(url, {";"}, slash + 1)
    IN  IF k = 0 THEN url ELSE Take(url, k - 1)

\* urlparse(url).path
UrlparsePath(url) ==
    LET n      == SchemeLen(url)
        scheme == Take(url, n)
        rest   == IF n = 0 THEN url ELSE Drop(url, n + 1)
        p      == BeforeChar(BeforeChar(AfterNetloc(rest), "#"), "?")
    IN  IF scheme \in uses_params THEN SplitParams(p) ELSE p

\* the characters the escapes of this alphabet decode to
HexPair == [e \in {<<"2", "0">>, <<"2", "3">>, <<"3", "0">>, <<"3", "2">>,
                   <<"3", "3">>, <<"2", "2">>}
              |-> CASE e = <<"2", "0">> -> " "
                    [] e = <<"2", "3">> -> "#"
                    [] e = <<"3", "0">> -> "0"
                    [] e = <<"3", "2">> -> "2"
                    [] e = <<"3", "3">> -> "3"
                    [] e = <<"2", "2">> -> "\""]

\* unquote: every %XX escape is replaced by the character it encodes;
\* a "%" that does not start an escape is kept
RECURSIVE unquote(_)
unquote(s) ==
    IF s = <<>> THEN <<>>
    ELSE IF s[1] = "%" /\ Len(s) >= 3 /\ <<s[2], s[3]>> \in DOMAIN HexPair
         THEN <<HexPair[<<s[2], s[3]>>]>> \o unquote(Drop(s, 3))
         ELSE <<s[1]>> \o unquote(Tail(s))

(***************************************************************************)
(* os.path (posixpath)                                                     *)
(***************************************************************************)
\* os.path.basename: what follows the last "/"
basename(p) == Drop(p, RFind(p, "/"))

\* os.path.join(a, b)
join(a, b) ==
    IF StartsWith(b, <<"/">>) THEN b
    ELSE IF a = <<>> \/ a[Len(a)] = "/" THEN a \o b
    ELSE a \o <<"/">> \o b

\* p.split('/'): the components of p, empty ones included
RECURSIVE SplitSlash(_)
SplitSlash(p) ==
    LET k == Find(p, "/")
    IN  IF k = 0 THEN <<p>> ELSE <<Take(p, k - 1)>> \o SplitSlash(Drop(p, k))

\* '/'.join(comps)
RECURSIVE JoinSlash(_)
JoinSlash(comps) ==
    IF comps = <<>> THEN <<>>
    ELSE IF Len(comps) = 1 THEN comps[1]
    ELSE comps[1] \o <<"/">> \o JoinSlash(Tail(comps))

\* normpath's loop over the components: "" and "." are dropped, ".." pops
RECURSIVE NormComps(_, _, _)
NormComps(comps, acc, rooted) ==
    IF comps = <<>> THEN acc
    ELSE LET c == comps[1]
             r == Tail(comps)
         IN  IF c = <<>> \/ c = <<".">> THEN NormComps(r, acc, rooted)
             ELSE IF c # <<".", ".">> THEN NormComps(r, Append(acc, c), rooted)
             ELSE IF acc # <<>> /\ acc[Len(acc)] # <<".", ".">>
                  THEN NormComps(r, SubSeq(acc, 1, Len(acc) - 1), rooted)
             ELSE IF rooted THEN NormComps(r, acc, rooted)
             ELSE NormComps(r, Append(acc, c), rooted)

\* os.path.normpath
normpath(p) ==
    IF p = <<>> THEN <<".">>
    ELSE LET slashes == IF ~StartsWith(p, <<"/">>) THEN 0
                        ELSE IF StartsWith(p, <<"/", "/">>) /\ ~StartsWith(p, <<"/", "/", "/">>)
                             THEN 2 ELSE 1
             body    == JoinSlash(NormComps(SplitSlash(p), <<>>, slashes > 0))
             lead    == [k \in 1..slashes |-> "/"]
         IN  IF slashes = 0 /\ body = <<>> THEN <<".">> ELSE lead \o body

\* the process's working directory
cwd == <<"/", "w">>

\* os.path.abspath
abspath(p) ==
    IF StartsWith(p, <<"/">>) THEN normpath(p) ELSE normpath(join(cwd, p))

(***************************************************************************)
(* The filesystem: the directories and the regular files that exist, each  *)
(* an absolute path given as its sequence of components                    *)
(***************************************************************************)
\* the walk the kernel makes over the components of a path: every step
\* needs the place reached so far to be a directory; the place reached at
\* the end must be one of `wanted`
RECURSIVE Walk(_, _, _, _)
Walk(comps, cur, dirs, wanted) ==
    IF comps = <<>> THEN cur \in wanted
    ELSE IF cur \notin dirs THEN FALSE
    ELSE LET c == comps[1]
         IN  IF c = <<>> \/ c = <<".">> THEN Walk(Tail(comps), cur, dirs, wanted)
             ELSE IF c = <<".", ".">>
                  THEN Walk(Tail(comps),
                            IF cur = <<>> THEN cur ELSE SubSeq(cur, 1, Len(cur) - 1),
                            dirs, wanted)
             ELSE Walk(Tail(comps), Append(cur, c), dirs, wanted)

\* the components of the working directory
cwdComps == <<<<"w">>>>

\* where the walk over p starts
WalkStart(p) == IF StartsWith(p, <<"/">>) THEN <<>> ELSE cwdComps

\* os.path.exists
exists(p, f) ==
    /\ p # <<>>
    /\ Walk(SplitSlash(p), WalkStart(p), f.dirs, f.dirs \cup f.files)

\* os.path.isdir
isdir(p, f) ==
    /\ p # <<>>
    /\ Walk(SplitSlash(p), WalkStart(p), f.dirs, f.dirs)

\* /w/c holds the document; /t is the static folder; /w/f is a regular file
Dirs == {<<>>, <<<<"w">>>>, <<<<"w">>, <<"c">>>>, <<<<"t">>>>, <<<<"t">>, <<"i">>>>}

\* "a", "a b" and the static "i/s" exist
FsPlain ==
    [dirs  |-> Dirs,
     files |-> {<<<<"w">>, <<"c">>, <<"a">>>>,
                <<<<"w">>, <<"c">>, <<"a", " ", "b">>>>,
                <<<<"t">>, <<"i">>, <<"s">>>>,
                <<<<"w">>, <<"f">>>>}]

\* "a" does not exist, but files literally named "a?v" and "a%20b" do
FsLiteral ==
    [dirs  |-> Dirs,
     files |-> {<<<<"w">>, <<"c">>, <<"a", "?", "v">>>>,
                <<<<"w">>, <<"c">>, <<"a", "%", "2", "0", "b">>>>,
                <<<<"t">>, <<"i">>, <<"s">>>>,
                <<<<"w">>, <<"f">>>>}]

Filesystems == {FsPlain, FsLiteral}

(***************************************************************************)
(* Optional values                                                         *)
(***************************************************************************)
None == [none |-> TRUE, val |-> <<>>]
Some(v) == [none |-> FALSE, val |-> v]

(***************************************************************************)
(* The inputs                                                              *)
(***************************************************************************)
src_updir      == <<".", ".", "/", "c", "/", "a">>
src_missing    == <<"n">>
src_query      == <<"a", "?", "v">>
src_escaped    == <<"a", "%", "2", "0", "b">>
src_static_frag == <<"/", "i", "/", "s", "#", "f">>
src_http       == <<"h", "t", "t", "p", ":", "/", "/", "h", "/", "i", "/", "s">>
src_https      == <<"h", "t", "t", "p", "s", ":", "/", "/", "h", "/", "i", "/", "s">>
src_protorel   == <<"/", "/", "h", "/", "i", "/", "s">>

\* the URLs an upload answers with
url_one == <<"h", "t", "t", "p", "s", ":", "/", "/", "h", "/", "u">>
url_two == <<"/", "/", "u", "/", "i", "/", "s">>
RemoteURLs == {url_one, url_two}

srcset_value == <<"a", " ", "2", "x">>

\* A node's form is the way its tag is closed in the text: ">", " />" or
\* "/>" for a void tag (the serializer writes "/>"), "" for text.
Img(src, srcset, form) ==
    [kind |-> "img", has_src |-> TRUE, src |-> src,
     has_srcset |-> srcset, srcset |-> IF srcset THEN srcset_value ELSE <<>>,
     form |-> form]

ImgNoSrc(form) ==
    [kind |-> "img", has_src |-> FALSE, src |-> <<>>,
     has_srcset |-> TRUE, srcset |-> srcset_value, form |-> form]

\* a run of text, and a line break
Text == [kind |-> "text", has_src |-> FALSE, src |-> <<>>,
         has_srcset |-> FALSE, srcset |-> <<>>, form |-> ""]
Br(form) == [kind |-> "br", has_src |-> FALSE, src |-> <<>>,
             has_srcset |-> FALSE, srcset |-> <<>>, form |-> form]

InputNodes ==
    {Img(src_updir, TRUE, " />"),
     Img(src_missing, FALSE, ">"),
     Img(src_query, FALSE, ">"),
     Img(src_escaped, TRUE, " />"),
     Img(src_static_frag, FALSE, ">"),
     Img(src_http, TRUE, ">"),
     Img(src_https, FALSE, "/>"),
     Img(src_protorel, FALSE, " />"),
     ImgNoSrc(">"),
     Text,
     Br(" />")}

\* the documents: every sequence of at most MaxNodes input nodes
Documents == UNION {[1..n -> InputNodes] : n \in 0..MaxNodes}

BaseDirs == {<<"c">>}

\* no static folder configured, the static folder, a regular file
StaticPaths == {None, Some(<<"/", "t">>), Some(<<"/", "w", "/", "f">>)}

\* what the uploader answers: None, {"message": ...}, {"URL": ""}, {"URL": u}
RespNone     == [none |-> TRUE,  has_URL |-> FALSE, URL |-> <<>>, has_message |-> FALSE]
RespMessage  == [none |-> FALSE, has_URL |-> FALSE, URL |-> <<>>, has_message |-> TRUE]
RespEmptyURL == [none |-> FALSE, has_URL |-> TRUE,  URL |-> <<>>, has_message |-> FALSE]
RespURL(u)   == [none |-> FALSE, has_URL |-> TRUE,  URL |-> u,    has_message |-> FALSE]
Responses == {RespNone, RespMessage, RespEmptyURL} \cup {RespURL(u) : u \in RemoteURLs}

(***************************************************************************)
(* BeautifulSoup(html_content, 'html.parser'), find_all('img'), str(soup)  *)
(***************************************************************************)
\* the parse tree keeps a tag's name and attributes, not the way it was written
ParseNode(n) == [n EXCEPT !.form = ""]
BeautifulSoup(nodes) == [k \in 1..Len(nodes) |-> ParseNode(nodes[k])]

\* the positions of the img tags, in document order
RECURSIVE FindAllFrom(_, _)
FindAllFrom(tree, k) ==
    IF k > Len(tree) THEN <<>>
    ELSE (IF tree[k].kind = "img" THEN <<k>> ELSE <<>>) \o FindAllFrom(tree, k + 1)
find_all_img(tree) == FindAllFrom(tree, 1)

\* a serializer that writes void tags the HTML way, <name ...>
SerializeNode_html(n) == [n EXCEPT !.form = IF n.kind = "text" THEN "" ELSE ">"]

\* the serializer writes every void tag as <name .../>
SerializeNode(n) == [n EXCEPT !.form = IF n.kind = "text" THEN "" ELSE "/>"]
str_soup(tree) == [k \in 1..Len(tree) |-> SerializeNode(tree[k])]

(***************************************************************************)
(* The decisions of one pass of the loop over the img tags                 *)
(***************************************************************************)
\* the test with the protocol-relative prefix forgotten
is_external_no_protorel(original_src) ==
    \/ StartsWith(original_src, <<"h", "t", "t", "p", ":", "/", "/">>)
    \/ StartsWith(original_src, <<"h", "t", "t", "p", "s", ":", "/", "/">>)

\* the test with only the http:// prefix
is_external_http_only(original_src) ==
    StartsWith(original_src, <<"h", "t", "t", "p", ":", "/", "/">>)

\* original_src.startswith(('http://', 'https://', '//'))
is_external(original_src) ==
    \/ StartsWith(original_src, <<"h", "t", "t", "p", ":", "/", "/">>)
    \/ StartsWith(original_src, <<"h", "t", "t", "p", "s", ":", "/", "/">>)
    \/ StartsWith(original_src, <<"/", "/">>)

\* the raw attribute value used as the path (the older revision)
cleaned_src_raw(original_src) == original_src

\* cleaned_src = unquote(urlparse(original_src).path)
cleaned_src(original_src) == unquote(UrlparsePath(original_src))

\* image_filename = os.path.basename(cleaned_src)
image_filename(original_src) == basename(cleaned_src(original_src))

\* cleaned_src.startswith('/')
is_site_absolute(original_src) == StartsWith(cleaned_src(original_src), <<"/">>)

\* static_path and os.path.isdir(static_path)
static_root_valid(sp, f) == ~sp.none /\ sp.val # <<>> /\ isdir(sp.val, f)

\* the relative branch without os.path.abspath
full_local_path_no_abspath(original_src, base, sp) ==
    IF StartsWith(unquote(UrlparsePath(original_src)), <<"/">>)
    THEN join(sp.val, LStripSlash(unquote(UrlparsePath(original_src))))
    ELSE join(base, unquote(UrlparsePath(original_src)))

\* the static branch without lstrip('/')
full_local_path_no_lstrip(original_src, base, sp) ==
    IF StartsWith(unquote(UrlparsePath(original_src)), <<"/">>)
    THEN join(sp.val, unquote(UrlparsePath(original_src)))
    ELSE abspath(join(base, unquote(UrlparsePath(original_src))))

\* full_local_path, on the two branches that compute it
full_local_path(original_src, base, sp) ==
    IF is_site_absolute(original_src)
    THEN join(sp.val, LStripSlash(cleaned_src(original_src)))
    ELSE abspath(join(base, cleaned_src(original_src)))

\* any non-empty response taken for a success
upload_succeeded_truthy(resp) ==
    /\ ~resp.none
    /\ resp.has_URL \/ resp.has_message

\* upload_response and upload_response.get('URL')
upload_succeeded(resp) ==
    /\ ~resp.none
    /\ resp.has_URL \/ resp.has_message
    /\ resp.has_URL
    /\ resp.URL # <<>>

\* the rewrite with srcset left in place
rewrite_tag_keep_srcset(tag, new_url) == [tag EXCEPT !.src = new_url]

\* the rewrite with the assignment to src forgotten
rewrite_tag_keep_src(tag, new_url) ==
    [tag EXCEPT !.has_srcset = FALSE, !.srcset = <<>>]

\* img_tag['src'] = new_url; del img_tag['srcset'] when it is there
rewrite_tag(tag, new_url) ==
    [tag EXCEPT !.src = new_url, !.has_srcset = FALSE, !.srcset = <<>>]

\* a loop that stops at the first image whose upload fails
next_image_abort(k, outcome) ==
    IF outcome = "upload_failed" THEN k + MaxNodes + 1 ELSE k + 1

\* the for loop goes on to the next tag whatever happened to this one
next_image(k, outcome) == k + 1

(***************************************************************************)
(* State                                                                   *)
(***************************************************************************)
VARIABLES
    html_content,            \* argument: None, or the document
    base_dir_for_images,     \* argument
    static_path,             \* argument: None, or a path
    dry_run,                 \* argument
    fs,                      \* the filesystem the call runs on
    pc,                      \* "start", "loop", "done", "raised"
    soup,                    \* the parse tree
    images,                  \* positions in soup of the img tags
    idx,                     \* position in images of the loop
    uploaded_images_count,
    uploader_calls,          \* the calls of uploader_func, with their answers
    result,                  \* the returned (html, count)
    pass                     \* 1: first call; 2: call on the first call's output

\* the state of a run of main (src/main.py)
VARIABLES
    args_dry_run,                      \* args.dry_run
    wordpress_site_id,                 \* the configuration read on lines 46 to 51
    default_post_status,
    default_post_category_str,
    default_post_tags_str,
    hash_of,                           \* the str hash of this process, on what it hashes
    session,                           \* "None", or "session" once connected
    all_hugo_posts,                    \* the documents the scan returned
    main_pc,                           \* "idle", "auth", "scan", "post", "images", "publish", "exit"
    post_i,                            \* position in all_hugo_posts of the loop
    image_k,                           \* image of the document the rewriter is at
    images_uploaded_for_this_post,
    total_images_uploaded_count,
    successfully_created_posts_count,
    failed_post_files,
    media_calls,                       \* the calls of upload_image_to_wordpress, in order
    post_calls,                        \* the calls of create_wordpress_post, in order
    network                            \* the network operations of the run, in order

\* what a run of main is given
main_inputs == <<args_dry_run, wordpress_site_id, default_post_status,
                 default_post_category_str, default_post_tags_str, hash_of,
                 all_hugo_posts>>

main_vars == <<main_inputs, session, main_pc, post_i, image_k,
               images_uploaded_for_this_post, total_images_uploaded_count,
               successfully_created_posts_count, failed_post_files, media_calls,
               post_calls, network>>

\* the state of a program that calls the two adapters itself, as the tests do
VARIABLES
    process_no,                        \* 1, and 2 once the program has been started again
    uploads,                           \* its calls of upload_image_to_wordpress
    creations                          \* its calls of create_wordpress_post

adapter_vars == <<process_no, uploads, creations>>

\* the state of a call of scan_hugo_content_path (hugo_content.py)
VARIABLES
    content_path,                      \* the argument
    path_kind,                         \* what os.path.exists and os.path.isdir find there
    walk,                              \* what os.walk(content_path) yields: (root, files)
    scan_pc,                           \* "idle", "start", "walk", "done"
    walk_i,                            \* the place in walk
    file_i,                            \* the place in the files of walk[walk_i]
    parsed_posts,                      \* the list being built, then returned
    parse_calls                        \* the calls of parse_hugo_file, with their answers

scan_vars == <<content_path, path_kind, walk, scan_pc, walk_i, file_i, parsed_posts,
               parse_calls>>

\* what is kept of a call of process_html_images when the same call is made
\* again in the other mode
VARIABLES
    first_call                         \* its uploader calls and its result; None before

\* the state of a call of launch_webserver_and_get_called_url
\* (hugo2wpcom/main.py): the thread of serve_forever, the threads that
\* call shutdown, the clients, and the caller waiting in join
VARIABLES
    backlog,                           \* the connections made and not yet accepted
    received,                          \* the requests, in the order they were received
    server_pc,                         \* "idle", "while", "select", "selected", "handle",
                                       \* "finally", "done": the place of serve_forever
    ready,                             \* what select returned
    shutdown_request,                  \* the flag of the server
    shutdown_threads,                  \* threads started at line 63 that have not set it yet
    called_url,                        \* RequestHandler.called_url
    handled,                           \* the URLs do_GET was run for, in order
    returned                           \* what the function returned

server_vars == <<backlog, received, server_pc, ready, shutdown_request, shutdown_threads,
                 called_url, handled, returned>>

\* the state of what is run on its own, beside the programs above
standalone_vars == <<scan_vars, first_call, server_vars>>

\* what a call of process_html_images on its own leaves alone
others == <<main_vars, adapter_vars, standalone_vars>>

rewriter_vars == <<html_content, base_dir_for_images, static_path, dry_run, fs, pc,
                   soup, images, idx, uploaded_images_count, uploader_calls, result, pass>>

vars == <<rewriter_vars, others>>

args == <<html_content, base_dir_for_images, static_path, dry_run, fs, pass>>

NoResult == [returned |-> FALSE, html |-> <<>>, count |-> 0]

\* no program calls the adapters itself
AdaptersIdle ==
    /\ process_no = 1
    /\ uploads = <<>>
    /\ creations = <<>>

\* scan_hugo_content_path is not running
ScanIdle ==
    /\ content_path = <<>>
    /\ path_kind = "missing"
    /\ walk = <<>>
    /\ scan_pc = "idle"
    /\ walk_i = 1
    /\ file_i = 1
    /\ parsed_posts = <<>>
    /\ parse_calls = <<>>

NoFirstCall == [none |-> TRUE, calls |-> <<>>, result |-> NoResult]

NotReturned == [returned |-> FALSE, url |-> <<>>]

\* the web server is not running
ServerIdle ==
    /\ backlog = <<>>
    /\ received = <<>>
    /\ server_pc = "idle"
    /\ ready = FALSE
    /\ shutdown_request = FALSE
    /\ shutdown_threads = 0
    /\ called_url = None
    /\ handled = <<>>
    /\ returned = NotReturned

\* no function is run on its own
StandaloneIdle == ScanIdle /\ first_call = NoFirstCall /\ ServerIdle

\* main is not running
MainIdle ==
    /\ args_dry_run = FALSE
    /\ wordpress_site_id = <<>>
    /\ default_post_status = <<>>
    /\ default_post_category_str = <<>>
    /\ default_post_tags_str = <<>>
    /\ hash_of = <<>>
    /\ session = "None"
    /\ all_hugo_posts = <<>>
    /\ main_pc = "idle"
    /\ post_i = 1
    /\ image_k = 1
    /\ images_uploaded_for_this_post = 0
    /\ total_images_uploaded_count = 0
    /\ successfully_created_posts_count = 0
    /\ failed_post_files = <<>>
    /\ media_calls = <<>>
    /\ post_calls = <<>>
    /\ network = <<>>

Init ==
    /\ html_content \in {None} \cup {Some(d) : d \in Documents}
    /\ base_dir_for_images \in BaseDirs
    /\ static_path \in StaticPaths
    /\ dry_run \in BOOLEAN
    /\ fs \in Filesystems
    /\ pc = "start"
    /\ soup = <<>>
    /\ images = <<>>
    /\ idx = 1
    /\ uploaded_images_count = 0
    /\ uploader_calls = <<>>
    /\ result = NoResult
    /\ pass = 1
    /\ MainIdle
    /\ AdaptersIdle
    /\ StandaloneIdle

\* the img tag the loop is at
img_tag == soup[images[idx]]
InLoop == pc = "loop" /\ idx <= Len(images)

(***************************************************************************)
(* Actions                                                                 *)
(***************************************************************************)
\* if not html_content: return "", 0
ReturnEmpty ==
    /\ pc = "start"
    /\ html_content.none \/ html_content.val = <<>>
    /\ result' = [returned |-> TRUE, html |-> <<>>, count |-> 0]
    /\ pc' = "done"
    /\ UNCHANGED <<others, args, soup, images, idx, uploaded_images_count, uploader_calls>>

\* soup = BeautifulSoup(...); images = soup.find_all('img'); count = 0
ParseHtml ==
    /\ pc = "start"
    /\ ~(html_content.none \/ html_content.val = <<>>)
    /\ soup' = BeautifulSoup(html_content.val)
    /\ images' = find_all_img(soup')
    /\ uploaded_images_count' = 0
    /\ idx' = 1
    /\ pc' = "loop"
    /\ UNCHANGED <<others, args, uploader_calls, result>>

\* a tag without src: continue
SkipNoSrc ==
    /\ InLoop
    /\ ~img_tag.has_src
    /\ idx' = next_image(idx, "no_src")
    /\ UNCHANGED <<others, args, pc, soup, images, uploaded_images_count, uploader_calls, result>>

\* an external reference: continue
SkipExternal ==
    /\ InLoop
    /\ img_tag.has_src
    /\ is_external(img_tag.src)
    /\ idx' = next_image(idx, "external")
    /\ UNCHANGED <<others, args, pc, soup, images, uploaded_images_count, uploader_calls, result>>

\* a reference from the site root without a usable static folder: continue
SkipNoStaticRoot ==
    /\ InLoop
    /\ img_tag.has_src
    /\ ~is_external(img_tag.src)
    /\ is_site_absolute(img_tag.src)
    /\ ~static_root_valid(static_path, fs)
    /\ idx' = next_image(idx, "no_static_root")
    /\ UNCHANGED <<others, args, pc, soup, images, uploaded_images_count, uploader_calls, result>>

\* the reference resolves to a path (line 62 to 73)
Resolved ==
    /\ InLoop
    /\ img_tag.has_src
    /\ ~is_external(img_tag.src)
    /\ is_site_absolute(img_tag.src) => static_root_valid(static_path, fs)

\* the resolved path does not exist: a warning, nothing else
ImageNotFound ==
    /\ Resolved
    /\ LET path == full_local_path(img_tag.src, base_dir_for_images, static_path)
       IN  ~(path # <<>> /\ exists(path, fs))
    /\ idx' = next_image(idx, "not_found")
    /\ UNCHANGED <<others, args, pc, soup, images, uploaded_images_count, uploader_calls, result>>

\* the call of uploader_func, were the path derived to depend on the uploads
\* made before it
UploaderCall_after_upload(resp) ==
    [tag      |-> images[idx],
     path     |-> IF uploaded_images_count > 0
                  THEN join(base_dir_for_images, cleaned_src(img_tag.src))
                  ELSE full_local_path(img_tag.src, base_dir_for_images, static_path),
     name     |-> image_filename(img_tag.src),
     dry_run  |-> dry_run,
     response |-> resp]

\* the call of uploader_func, were the flag not handed on
UploaderCall_without_flag(resp) ==
    [tag      |-> images[idx],
     path     |-> full_local_path(img_tag.src, base_dir_for_images, static_path),
     name     |-> image_filename(img_tag.src),
     dry_run  |-> FALSE,
     response |-> resp]

\* the call of uploader_func for the tag the loop is at, answered with resp
UploaderCall(resp) ==
    [tag      |-> images[idx],
     path     |-> full_local_path(img_tag.src, base_dir_for_images, static_path),
     name     |-> image_filename(img_tag.src),
     dry_run  |-> dry_run,
     response |-> resp]

\* the path exists, the upload answers with a URL: the tag is rewritten
UploadSuccess ==
    /\ Resolved
    /\ LET path == full_local_path(img_tag.src, base_dir_for_images, static_path)
       IN  path # <<>> /\ exists(path, fs)
    /\ \E resp \in Responses :
        /\ upload_succeeded(resp)
        /\ uploader_calls' = Append(uploader_calls, UploaderCall(resp))
        /\ soup' = [soup EXCEPT ![images[idx]] = rewrite_tag(@, resp.URL)]
    /\ uploaded_images_count' = uploaded_images_count + 1
    /\ idx' = next_image(idx, "uploaded")
    /\ UNCHANGED <<others, args, pc, images, result>>

\* the path exists, the upload answers without a URL: the tag is left alone
UploadFailure ==
    /\ Resolved
    /\ LET path == full_local_path(img_tag.src, base_dir_for_images, static_path)
       IN  path # <<>> /\ exists(path, fs)
    /\ \E resp \in Responses :
        /\ ~upload_succeeded(resp)
        /\ uploader_calls' = Append(uploader_calls, UploaderCall(resp))
    /\ idx' = next_image(idx, "upload_failed")
    /\ UNCHANGED <<others, args, pc, soup, images, uploaded_images_count, result>>

\* return str(soup), uploaded_images_count
ReturnResult ==
    /\ pc = "loop"
    /\ idx > Len(images)
    /\ result' = [returned |-> TRUE, html |-> str_soup(soup), count |-> uploaded_images_count]
    /\ pc' = "done"
    /\ UNCHANGED <<others, args, soup, images, idx, uploaded_images_count, uploader_calls>>

\* process_html_images is called again, on the markup it has just returned
SecondPass ==
    /\ pc = "done"
    /\ pass = 1
    /\ pass' = 2
    /\ html_content' = Some(result.html)
    /\ pc' = "start"
    /\ soup' = <<>>
    /\ images' = <<>>
    /\ idx' = 1
    /\ uploaded_images_count' = 0
    /\ uploader_calls' = <<>>
    /\ result' = NoResult
    /\ UNCHANGED <<others, base_dir_for_images, static_path, dry_run, fs>>

Next ==
    \/ ReturnEmpty
    \/ ParseHtml
    \/ SkipNoSrc
    \/ SkipExternal
    \/ SkipNoStaticRoot
    \/ ImageNotFound
    \/ UploadSuccess
    \/ UploadFailure
    \/ ReturnResult
    \/ SecondPass

Spec == Init /\ [][Next]_vars

(***************************************************************************)
(* An uploader that raises.  The call of line 82 stands in no try block,   *)
(* so the exception leaves process_html_images: nothing is returned.       *)
(***************************************************************************)
UploaderRaises ==
    /\ Resolved
    /\ LET path == full_local_path(img_tag.src, base_dir_for_images, static_path)
       IN  path # <<>> /\ exists(path, fs)
    /\ pc' = "raised"
    /\ UNCHANGED <<others, args, soup, images, idx, uploaded_images_count, uploader_calls, result>>

NextRaise ==
    \/ ReturnEmpty
    \/ ParseHtml
    \/ SkipNoSrc
    \/ SkipExternal
    \/ SkipNoStaticRoot
    \/ ImageNotFound
    \/ UploadSuccess
    \/ UploadFailure
    \/ UploaderRaises
    \/ ReturnResult
    \/ SecondPass

SpecRaise == Init /\ [][NextRaise]_vars

(***************************************************************************)
(* The same call of process_html_images made twice, once in each mode: the *)
(* second call has the arguments of the first but for dry_run, and the     *)
(* uploader answers its k-th call as it answered the k-th call before.     *)
(***************************************************************************)
\* process_html_images is called again with the other value of dry_run
CallAgainInOtherMode ==
    /\ pc = "done"
    /\ pass = 1
    /\ first_call.none
    /\ first_call' = [none |-> FALSE, calls |-> uploader_calls, result |-> result]
    /\ dry_run' = ~dry_run
    /\ pc' = "start"
    /\ soup' = <<>>
    /\ images' = <<>>
    /\ idx' = 1
    /\ uploaded_images_count' = 0
    /\ uploader_calls' = <<>>
    /\ result' = NoResult
    /\ UNCHANGED <<main_vars, adapter_vars, scan_vars, server_vars, html_content,
                   base_dir_for_images, static_path, fs, pass>>

\* the uploader answers the call just made as it answered the call at the
\* same place of the first run, when there was one
AnswersAsBefore ==
    LET k == Len(uploader_calls')
    IN  ~first_call.none /\ k <= Len(first_call.calls)
            => uploader_calls'[k].response = first_call.calls[k].response

UploadSuccessInEitherMode == UploadSuccess /\ AnswersAsBefore
UploadFailureInEitherMode == UploadFailure /\ AnswersAsBefore

NextTwoModes ==
    \/ ReturnEmpty
    \/ ParseHtml
    \/ SkipNoSrc
    \/ SkipExternal
    \/ SkipNoStaticRoot
    \/ ImageNotFound
    \/ UploadSuccessInEitherMode
    \/ UploadFailureInEitherMode
    \/ ReturnResult
    \/ CallAgainInOtherMode

SpecTwoModes == Init /\ [][NextTwoModes]_vars

(***************************************************************************)
(* Documents whose img tags name no file: the src is empty, or it is only  *)
(* a fragment or only a query, so urlparse(src).path is ''.  Line 62 sends *)
(* them to the relative branch, where line 73 joins base_dir_for_images    *)
(* with '' and makes the result absolute: the base directory itself.       *)
(***************************************************************************)
src_empty      == <<>>
src_fragment   == <<"#", "t">>
src_query_only == <<"?", "v">>

NamelessNodes ==
    {Img(src_empty, TRUE, ">"),
     Img(src_fragment, FALSE, " />"),
     Img(src_query_only, TRUE, ">"),
     Img(src_missing, FALSE, ">"),
     Text}

NamelessDocuments == UNION {[1..n -> NamelessNodes] : n \in 0..MaxNodes}

\* a base directory that does not exist, beside the one that does
NamelessBaseDirs == BaseDirs \cup {<<"n">>}

InitNameless ==
    /\ html_content \in {Some(d) : d \in NamelessDocuments}
    /\ base_dir_for_images \in NamelessBaseDirs
    /\ static_path \in StaticPaths
    /\ dry_run \in BOOLEAN
    /\ fs \in Filesystems
    /\ pc = "start"
    /\ soup = <<>>
    /\ images = <<>>
    /\ idx = 1
    /\ uploaded_images_count = 0
    /\ uploader_calls = <<>>
    /\ result = NoResult
    /\ pass = 1
    /\ MainIdle
    /\ AdaptersIdle
    /\ StandaloneIdle

\* the steps of process_html_images these documents can take
NextNameless ==
    \/ ReturnEmpty
    \/ ParseHtml
    \/ ImageNotFound
    \/ UploadSuccess
    \/ UploadFailure
    \/ ReturnResult

SpecNameless == InitNameless /\ [][NextNameless]_vars

(***************************************************************************)
(* Python values of a front matter mapping, and the str methods main uses  *)
(***************************************************************************)
\* a value of the metadata mapping; Absent: the key is not in the mapping
Absent      == [type |-> "absent",   str |-> <<>>, list |-> <<>>, bool |-> FALSE]
NoneValue   == [type |-> "None",     str |-> <<>>, list |-> <<>>, bool |-> FALSE]
Str(s)      == [type |-> "str",      str |-> s,    list |-> <<>>, bool |-> FALSE]
Bool(b)     == [type |-> "bool",     str |-> <<>>, list |-> <<>>, bool |-> b]
List(l)     == [type |-> "list",     str |-> <<>>, list |-> l,    bool |-> FALSE]
Datetime(s) == [type |-> "datetime", str |-> s,    list |-> <<>>, bool |-> FALSE]

\* metadata.get(key, default)
get(metadata, key, default) ==
    IF metadata[key].type = "absent" THEN default ELSE metadata[key]

\* bool(v)
truthy(v) ==
    CASE v.type \in {"absent", "None"} -> FALSE
      [] v.type = "str"                -> v.str # <<>>
      [] v.type = "list"               -> v.list # <<>>
      [] v.type = "bool"               -> v.bool
      [] OTHER                         -> TRUE

\* str(v)
str(v) ==
    CASE v.type = "None" -> <<"N", "o", "n", "e">>
      [] v.type = "bool" -> IF v.bool THEN <<"T", "r", "u", "e">> ELSE <<"F", "a", "l", "s", "e">>
      [] OTHER           -> v.str

Whitespace == {" ", "\t", "\n"}

RECURSIVE lstrip(_)
lstrip(s) == IF s # <<>> /\ Head(s) \in Whitespace THEN lstrip(Tail(s)) ELSE s

RECURSIVE rstrip(_)
rstrip(s) ==
    IF s # <<>> /\ s[Len(s)] \in Whitespace THEN rstrip(SubSeq(s, 1, Len(s) - 1)) ELSE s

\* s.strip()
strip(s) == rstrip(lstrip(s))

\* s.split(','): one segment more than there are commas, empty ones kept
RECURSIVE split(_, _)
split(s, sep) ==
    LET k == Find(s, sep)
    IN  IF k = 0 THEN <<s>> ELSE <<Take(s, k - 1)>> \o split(Drop(s, k), sep)

UpperCase == <<"A", "B", "C", "D", "E", "F", "G", "H", "I", "J", "K", "L", "M",
               "N", "O", "P", "Q", "R", "S", "T", "U", "V", "W", "X", "Y", "Z">>
LowerCase == <<"a", "b", "c", "d", "e", "f", "g", "h", "i", "j", "k", "l", "m",
               "n", "o", "p", "q", "r", "s", "t", "u", "v", "w", "x", "y", "z">>

\* s.lower()
lower(s) ==
    [k \in 1..Len(s) |->
        IF \E u \in 1..Len(UpperCase) : UpperCase[u] = s[k]
        THEN LowerCase[CHOOSE u \in 1..Len(UpperCase) : UpperCase[u] = s[k]]
        ELSE s[k]]

\* s.replace(a, b) for one-character a and b
replace(s, a, b) == [k \in 1..Len(s) |-> IF s[k] = a THEN b ELSE s[k]]

(***************************************************************************)
(* main, lines 124 to 162: what is handed to create_wordpress_post         *)
(***************************************************************************)
non_empty(s) == s # <<>>

\* title = metadata.get('title', os.path.basename(filepath))
title_of(metadata, filepath) == get(metadata, "title", Str(basename(filepath)))

\* dateutil_parser.parse(s).isoformat(), for the date strings of the inputs;
\* any other string raises ValueError
date_text == <<"2", "0", "2", "4", "-", "0", "1", "-", "0", "2">>
date_iso  == date_text \o <<"T", "0", "0", ":", "0", "0", ":", "0", "0">>
ParseableDates == {date_text, date_iso}
parse_isoformat(s) == date_iso

\* the date string is handed on as it is written, without parsing
date_str_of_unparsed(metadata) ==
    LET date_val == get(metadata, "date", NoneValue)
    IN  IF ~truthy(date_val) THEN NoneValue
        ELSE Str(str(date_val))

\* lines 126 to 138: None, or the ISO form of the date
date_str_of(metadata) ==
    LET date_val == get(metadata, "date", NoneValue)
    IN  IF ~truthy(date_val) THEN NoneValue
        ELSE IF date_val.type = "datetime" THEN Str(date_val.str)
        ELSE IF str(date_val) \in ParseableDates THEN Str(parse_isoformat(str(date_val)))
        ELSE NoneValue

\* lines 137 and 138: the warning of a date that could not be parsed
date_warning_of(metadata) ==
    LET date_val == get(metadata, "date", NoneValue)
    IN  /\ truthy(date_val)
        /\ date_val.type # "datetime"
        /\ str(date_val) \notin ParseableDates

\* [x.strip() for x in s.split(',')]: lines 143 and 152
split_and_strip(s) == [k \in 1..Len(split(s, ",")) |-> strip(split(s, ",")[k])]

\* [str(x).strip() for x in l if str(x).strip()]: lines 145 and 154
strip_list(l) == SelectSeq([k \in 1..Len(l) |-> strip(l[k])], non_empty)

\* [x.strip() for x in s.split(',') if x.strip()]: lines 147 and 156
default_list(s) == SelectSeq(split_and_strip(s), non_empty)

\* lines 142 to 147 and 151 to 156, from the raw value of the metadata
list_of(raw, default_str) ==
    LET from_metadata ==
            CASE raw.type = "str"  -> split_and_strip(raw.str)
              [] raw.type = "list" -> strip_list(raw.list)
              [] OTHER             -> <<>>
    IN  IF from_metadata = <<>> /\ default_str # <<>>
        THEN default_list(default_str)
        ELSE from_metadata

\* lines 140 to 147
categories_of(metadata, default_str) ==
    list_of(get(metadata, "categories", get(metadata, "category", NoneValue)),
            default_str)

\* lines 149 to 156
tags_of(metadata, default_str) ==
    list_of(get(metadata, "tags", NoneValue), default_str)

draft_status   == <<"d", "r", "a", "f", "t">>
publish_status == <<"p", "u", "b", "l", "i", "s", "h">>

\* a derivation that lets the status field win over a boolean draft
status_of_status_first(metadata, default_status) ==
    IF truthy(get(metadata, "status", NoneValue))
    THEN lower(str(metadata["status"]))
    ELSE IF get(metadata, "draft", NoneValue).type = "bool"
    THEN (IF metadata["draft"].bool THEN draft_status ELSE publish_status)
    ELSE default_status

\* lines 158 to 162
status_of(metadata, default_status) ==
    IF get(metadata, "draft", NoneValue).type = "bool"
    THEN (IF metadata["draft"].bool THEN draft_status ELSE publish_status)
    ELSE IF truthy(get(metadata, "status", NoneValue))
    THEN lower(str(metadata["status"]))
    ELSE default_status

\* categories if categories else None (lines 172 and 173)
list_or_None(l) == IF l # <<>> THEN List(l) ELSE NoneValue

(***************************************************************************)
(* The adapters: upload_image_to_wordpress and create_wordpress_post.      *)
(* A fixed piece of a URL is written as one element of the string.         *)
(***************************************************************************)
\* site_id.split('.')[0] if '.' in site_id else site_id
site_prefix(site_id) ==
    IF Find(site_id, ".") # 0 THEN split(site_id, ".")[1] ELSE site_id

\* wp_media_uploader.py line 34
placeholder_url(site_id, image_name) ==
    <<"https://">> \o site_prefix(site_id) \o <<".files.wordpress.com/2024/dry_run/">>
        \o replace(image_name, " ", "_") \o <<"_placeholder.jpg">>

\* what opening the file, session.post, raise_for_status, response.json()
\* and the reading of the answer can do in a live upload.  AttributeError:
\* the first media item is not a mapping, so .get fails on line 53
UploadOutcomes ==
    {"IOError", "HTTPError", "RequestException", "ValueError", "no_media",
     "media_without_URL", "media", "AttributeError"}

\* what a call of an adapter gives: the response when it returns, and the
\* number of session.post calls it made
Returns(resp, n) == [raised |-> FALSE, response |-> resp, posts |-> n]
Raises(resp, n)  == [raised |-> TRUE,  response |-> resp, posts |-> n]

\* an uploader that does not look at dry_run
upload_image_to_wordpress_live_only(site_id, image_path, image_name, dry, f, outcome) ==
    IF ~exists(image_path, f) THEN Returns(RespNone, 0)
    ELSE CASE outcome = "IOError"           -> Returns(RespNone, 0)
           [] outcome = "media"             -> Returns(RespURL(url_one), 1)
           [] outcome = "media_without_URL" -> Returns(RespMessage, 1)
           [] outcome = "AttributeError"    -> Raises(RespNone, 1)
           [] OTHER                         -> Returns(RespNone, 1)

\* wp_media_uploader.py lines 27 to 78
upload_image_to_wordpress(site_id, image_path, image_name, dry, f, outcome) ==
    IF ~exists(image_path, f) THEN Returns(RespNone, 0)
    ELSE IF dry THEN Returns(RespURL(placeholder_url(site_id, image_name)), 0)
    ELSE CASE outcome = "IOError"           -> Returns(RespNone, 0)
           [] outcome = "media"             -> Returns(RespURL(url_one), 1)
           [] outcome = "media_without_URL" -> Returns(RespMessage, 1)
           [] outcome = "AttributeError"    -> Raises(RespNone, 1)
           [] OTHER                         -> Returns(RespNone, 1)

\* the answers of create_wordpress_post: None, or a mapping
PostNone == [none |-> TRUE, has_ID |-> FALSE, ID |-> 0, URL |-> <<>>, dry_run_success |-> FALSE]
PostDict(has_id, id, url, simulated) ==
    [none |-> FALSE, has_ID |-> has_id, ID |-> id, URL |-> url, dry_run_success |-> simulated]

\* the post the live API answers with
live_post_url == <<"https://">> \o <<"s">> \o <<".wordpress.com/">> \o <<"p">>
LivePost == PostDict(TRUE, 42, live_post_url, FALSE)
\* an answer without ID
LiveError == PostDict(FALSE, 0, <<>>, FALSE)

\* what session.post, raise_for_status, response.json() and the reading of
\* the answer can do in a live post creation.  AttributeError: the decoded
\* JSON is not a mapping, so .get fails on line 92
CreateOutcomes ==
    {"HTTPError", "RequestException", "ValueError", "json_without_ID", "json_with_ID",
     "AttributeError"}

\* wp_post_creator.py lines 37 to 47: the keys of the payload
payload_keys(date, categories, tags) ==
    {"title", "content", "status"}
        \cup (IF truthy(date) THEN {"date"} ELSE {})
        \cup (IF truthy(categories) THEN {"categories"} ELSE {})
        \cup (IF truthy(tags) THEN {"tags"} ELSE {})

\* a payload that carries every field it is given, empty or not
payload_of_every_field(title, content_html, status, date, categories, tags) ==
    [k \in {"title", "content", "status", "date", "categories", "tags"} |->
        CASE k = "title"      -> title
          [] k = "content"    -> content_html
          [] k = "status"     -> status
          [] k = "date"       -> date
          [] k = "categories" -> categories
          [] k = "tags"       -> tags]

\* wp_post_creator.py lines 37 to 47
payload_of(title, content_html, status, date, categories, tags) ==
    [k \in payload_keys(date, categories, tags) |->
        CASE k = "title"      -> title
          [] k = "content"    -> content_html
          [] k = "status"     -> status
          [] k = "date"       -> date
          [] k = "categories" -> categories
          [] k = "tags"       -> tags]

abs(n) == IF n < 0 THEN 0 - n ELSE n

\* date or ""
or_empty(date) == IF truthy(date) THEN date.str ELSE <<>>

\* wp_post_creator.py lines 65 and 66; hash is the str hash of the process
simulated_post_id(title, date, hash) == abs(hash[title.str \o or_empty(date)]) % 10000
simulated_post_url(site_id, title, id) ==
    <<"https://">> \o site_prefix(site_id) \o <<".wordpress.com/dry_run/">>
        \o <<ToString(id)>> \o <<"/">> \o replace(lower(title.str), " ", "-")

\* a live call that tries session.post a second time when the first failed
create_wordpress_post_retrying(site_id, title, status, date, dry, hash, outcome) ==
    IF dry
    THEN IF title.type # "str" THEN Raises(PostNone, 0)
         ELSE LET id == simulated_post_id(title, date, hash)
              IN  Returns(PostDict(TRUE, id, simulated_post_url(site_id, title, id), TRUE), 0)
    ELSE CASE outcome = "json_with_ID"    -> Returns(LivePost, 1)
           [] outcome = "json_without_ID" -> Returns(LiveError, 1)
           [] outcome = "AttributeError"  -> Raises(PostNone, 1)
           [] OTHER                       -> Returns(PostNone, 2)

\* wp_post_creator.py lines 49 to 111; title + (date or "") raises TypeError
\* when title is not a str
create_wordpress_post(site_id, title, status, date, dry, hash, outcome) ==
    IF dry
    THEN IF title.type # "str" THEN Raises(PostNone, 0)
         ELSE LET id == simulated_post_id(title, date, hash)
              IN  Returns(PostDict(TRUE, id, simulated_post_url(site_id, title, id), TRUE), 0)
    ELSE CASE outcome = "json_with_ID"    -> Returns(LivePost, 1)
           [] outcome = "json_without_ID" -> Returns(LiveError, 1)
           [] outcome = "AttributeError"  -> Raises(PostNone, 1)
           [] OTHER                       -> Returns(PostNone, 1)

\* main.py line 180
post_created(resp) ==
    ~resp.none /\ ((resp.has_ID /\ resp.ID # 0) \/ resp.dry_run_success)

(***************************************************************************)
(* main (src/main.py): the documents of a run.  The HTML of a document is  *)
(* given by image_files, the local images of it that exist, in document    *)
(* order: the uploader calls process_html_images makes for it.             *)
(***************************************************************************)
MaxPosts  == 2
MaxImages == 2

Meta(t, d, cs, c, tg, dr, st) ==
    [title |-> t, date |-> d, categories |-> cs, category |-> c, tags |-> tg,
     draft |-> dr, status |-> st]

Post(file, is_empty, files, md) ==
    [filepath |-> file, empty |-> is_empty, image_files |-> files, metadata |-> md]

post_path == <<"c", "/", "p">>
image_a == [path |-> <<"/", "w", "/", "c", "/", "a">>, name |-> <<"a">>]
title_text == <<"T", " ", "t">>

\* a front matter with a title only, and one whose title is None ("title:")
md_titled   == Meta(Str(title_text), Absent, Absent, Absent, Absent, Absent, Absent)
md_no_title == Meta(NoneValue, Absent, Absent, Absent, Absent, Absent, Absent)

ImageLists == UNION {[1..n -> {image_a}] : n \in 0..MaxImages}

MainPosts ==
    {Post(post_path, TRUE, <<>>, md_titled), Post(post_path, FALSE, <<>>, md_no_title)}
        \cup {Post(post_path, FALSE, files, md_titled) : files \in ImageLists}

PostLists == UNION {[1..n -> MainPosts] : n \in 0..MaxPosts}

site_with_dot == <<"s", ".", "w">>
site_plain    == <<"s", "2">>

\* values of hash(): any integer, the same for the same string in a process
HashValues == {3, 0 - 10007}

\* the strings a dry run of these documents hashes (wp_post_creator.py line 65)
Hashed(posts) ==
    {title_of(posts[k].metadata, posts[k].filepath).str
        \o or_empty(date_str_of(posts[k].metadata)) :
            k \in {j \in 1..Len(posts) :
                    title_of(posts[j].metadata, posts[j].filepath).type = "str"}}

\* process_html_images is not running on its own
RewriterIdle ==
    /\ html_content = None
    /\ base_dir_for_images = <<"c">>
    /\ static_path = None
    /\ dry_run = FALSE
    /\ fs = FsPlain
    /\ pc = "idle"
    /\ soup = <<>>
    /\ images = <<>>
    /\ idx = 1
    /\ uploaded_images_count = 0
    /\ uploader_calls = <<>>
    /\ result = NoResult
    /\ pass = 1

\* main has read its arguments and its configuration (lines 15 to 61)
MainStarts ==
    /\ session = "None"
    /\ main_pc = "auth"
    /\ post_i = 1
    /\ image_k = 1
    /\ images_uploaded_for_this_post = 0
    /\ total_images_uploaded_count = 0
    /\ successfully_created_posts_count = 0
    /\ failed_post_files = <<>>
    /\ media_calls = <<>>
    /\ post_calls = <<>>
    /\ network = <<>>

InitMain ==
    /\ RewriterIdle
    /\ AdaptersIdle
    /\ StandaloneIdle
    /\ args_dry_run \in BOOLEAN
    /\ wordpress_site_id = site_with_dot
    /\ default_post_status = draft_status
    /\ default_post_category_str = <<>>
    /\ default_post_tags_str = <<>>
    /\ all_hugo_posts \in PostLists
    /\ hash_of \in [IF args_dry_run THEN Hashed(all_hugo_posts) ELSE {} -> HashValues]
    /\ MainStarts

\* the document the loop is at
post_data == all_hugo_posts[post_i]
InPostLoop == main_pc = "post" /\ post_i <= Len(all_hugo_posts)

\* the position of the next adapter call in the run
now == Len(media_calls) + Len(post_calls) + 1

\* n calls of session.post more
session_posts(n) == IF n = 0 THEN network ELSE Append(network, "session.post")

\* a failure that is not written to failed_post_files
Failed_unrecorded(reason) == failed_post_files

\* the entry of failed_post_files
Failed(reason) == Append(failed_post_files, [post |-> post_i, reason |-> reason])

(***************************************************************************)
(* main: the steps of a run                                                *)
(***************************************************************************)
\* lines 64 and 65: a dry run does not authenticate
SkipAuthentication ==
    /\ main_pc = "auth"
    /\ args_dry_run
    /\ main_pc' = "scan"
    /\ UNCHANGED <<rewriter_vars, standalone_vars, adapter_vars, main_inputs, session, post_i, image_k,
                   images_uploaded_for_this_post, total_images_uploaded_count,
                   successfully_created_posts_count, failed_post_files, media_calls,
                   post_calls, network>>

\* lines 66 to 74: connect_to_wordpress; without a session main returns
ConnectToWordPress ==
    /\ main_pc = "auth"
    /\ ~args_dry_run
    /\ network' = Append(network, "connect")
    /\ \E connected \in BOOLEAN :
        /\ session' = IF connected THEN "session" ELSE "None"
        /\ main_pc' = IF connected THEN "scan" ELSE "exit"
    /\ UNCHANGED <<rewriter_vars, standalone_vars, adapter_vars, main_inputs, post_i, image_k,
                   images_uploaded_for_this_post, total_images_uploaded_count,
                   successfully_created_posts_count, failed_post_files, media_calls,
                   post_calls>>

\* lines 80 to 82: the scan found nothing
NoPostsFound ==
    /\ main_pc = "scan"
    /\ all_hugo_posts = <<>>
    /\ main_pc' = "exit"
    /\ UNCHANGED <<rewriter_vars, standalone_vars, adapter_vars, main_inputs, session, post_i, image_k,
                   images_uploaded_for_this_post, total_images_uploaded_count,
                   successfully_created_posts_count, failed_post_files, media_calls,
                   post_calls, network>>

\* lines 85 to 89: the counters, and the loop over the documents
StartLoop ==
    /\ main_pc = "scan"
    /\ all_hugo_posts # <<>>
    /\ total_images_uploaded_count' = 0
    /\ successfully_created_posts_count' = 0
    /\ failed_post_files' = <<>>
    /\ post_i' = 1
    /\ main_pc' = "post"
    /\ UNCHANGED <<rewriter_vars, standalone_vars, adapter_vars, main_inputs, session, image_k,
                   images_uploaded_for_this_post, media_calls, post_calls, network>>

\* lines 99 to 104: the conversion gave nothing
ConversionEmpty ==
    /\ InPostLoop
    /\ post_data.empty
    /\ failed_post_files' = Failed("Markdown conversion failed or empty")
    /\ post_i' = post_i + 1
    /\ UNCHANGED <<rewriter_vars, standalone_vars, adapter_vars, main_inputs, session, main_pc, image_k,
                   images_uploaded_for_this_post, total_images_uploaded_count,
                   successfully_created_posts_count, media_calls, post_calls, network>>

\* lines 109 to 119: process_html_images is called
CallProcessHtmlImages ==
    /\ InPostLoop
    /\ ~post_data.empty
    /\ image_k' = 1
    /\ images_uploaded_for_this_post' = 0
    /\ main_pc' = "images"
    /\ UNCHANGED <<rewriter_vars, standalone_vars, adapter_vars, main_inputs, session, post_i,
                   total_images_uploaded_count, successfully_created_posts_count,
                   failed_post_files, media_calls, post_calls, network>>

\* the uploader call of the image the rewriter is at, and what main can see
\* of its answer: the URL, empty when the answer has none
MediaCall(r) ==
    [at         |-> now,
     post       |-> post_i,
     site_id    |-> wordpress_site_id,
     image_path |-> post_data.image_files[image_k].path,
     image_name |-> post_data.image_files[image_k].name,
     dry_run    |-> args_dry_run,
     URL        |-> r.response.URL,
     raised     |-> r.raised,
     posts      |-> r.posts]

InImages == main_pc = "images" /\ image_k <= Len(post_data.image_files)

\* html_processor.py lines 82 to 94: the uploader returns; the rewriter
\* counts the image when the answer carries a URL, and goes on
UploadImage ==
    /\ InImages
    /\ \E outcome \in UploadOutcomes :
        LET r == upload_image_to_wordpress(wordpress_site_id,
                    post_data.image_files[image_k].path,
                    post_data.image_files[image_k].name, args_dry_run, fs, outcome)
        IN  /\ ~r.raised
            /\ media_calls' = Append(media_calls, MediaCall(r))
            /\ network' = session_posts(r.posts)
            /\ images_uploaded_for_this_post' =
                  IF upload_succeeded(r.response)
                  THEN images_uploaded_for_this_post + 1
                  ELSE images_uploaded_for_this_post
    /\ image_k' = image_k + 1
    /\ UNCHANGED <<rewriter_vars, standalone_vars, adapter_vars, main_inputs, session, main_pc, post_i,
                   total_images_uploaded_count, successfully_created_posts_count,
                   failed_post_files, post_calls>>

\* the uploader raises: the exception leaves process_html_images (line 82)
\* and reaches the except of lines 187 to 189; line 120 is not run
UploadImageRaises ==
    /\ InImages
    /\ \E outcome \in UploadOutcomes :
        LET r == upload_image_to_wordpress(wordpress_site_id,
                    post_data.image_files[image_k].path,
                    post_data.image_files[image_k].name, args_dry_run, fs, outcome)
        IN  /\ r.raised
            /\ media_calls' = Append(media_calls, MediaCall(r))
            /\ network' = session_posts(r.posts)
    /\ failed_post_files' = Failed("Unexpected error")
    /\ post_i' = post_i + 1
    /\ main_pc' = "post"
    /\ UNCHANGED <<rewriter_vars, standalone_vars, adapter_vars, main_inputs, session, image_k,
                   images_uploaded_for_this_post, total_images_uploaded_count,
                   successfully_created_posts_count, post_calls>>

\* html_processor.py line 100 and main.py line 120
ProcessHtmlImagesReturns ==
    /\ main_pc = "images"
    /\ image_k > Len(post_data.image_files)
    /\ total_images_uploaded_count' =
          total_images_uploaded_count + images_uploaded_for_this_post
    /\ main_pc' = "publish"
    /\ UNCHANGED <<rewriter_vars, standalone_vars, adapter_vars, main_inputs, session, post_i, image_k,
                   images_uploaded_for_this_post, successfully_created_posts_count,
                   failed_post_files, media_calls, post_calls, network>>

\* the HTML of the document as it was converted, before its images were
\* processed
processed_html_before_images == Str(<<"html", ToString(post_i), "0">>)

\* the HTML process_html_images returned for the document the loop is at
processed_html ==
    Str(<<"html", ToString(post_i), ToString(images_uploaded_for_this_post)>>)

\* lines 124 to 162: the locals of the loop body
title      == title_of(post_data.metadata, post_data.filepath)
date_str   == date_str_of(post_data.metadata)
date_warning == date_warning_of(post_data.metadata)
categories == categories_of(post_data.metadata, default_post_category_str)
tags       == tags_of(post_data.metadata, default_post_tags_str)
status     == status_of(post_data.metadata, default_post_status)

\* lines 166 to 177: the call of create_wordpress_post, and what main can
\* see of its answer: the ID (0 when the answer has none), the URL and the
\* mark of a simulation; with it, whether line 138 printed its warning while
\* the arguments were prepared
PostCall(r) ==
    [at           |-> now,
     post         |-> post_i,
     site_id      |-> wordpress_site_id,
     title        |-> title,
     content_html |-> processed_html,
     status       |-> Str(status),
     date         |-> date_str,
     date_warning |-> date_warning,
     categories   |-> list_or_None(categories),
     tags         |-> list_or_None(tags),
     dry_run      |-> args_dry_run,
     payload      |-> payload_of(title, processed_html, Str(status), date_str,
                                 list_or_None(categories), list_or_None(tags)),
     ID           |-> r.response.ID,
     URL          |-> r.response.URL,
     simulated    |-> r.response.dry_run_success,
     raised       |-> r.raised,
     posts        |-> r.posts]

\* the answer of create_wordpress_post for the document the loop is at
CreateAnswer(outcome) ==
    create_wordpress_post(wordpress_site_id, title, Str(status), date_str,
                          args_dry_run, hash_of, outcome)

\* lines 166 to 182: the post is created
CreatePostSucceeds ==
    /\ main_pc = "publish"
    /\ \E outcome \in CreateOutcomes :
        LET r == CreateAnswer(outcome)
        IN  /\ ~r.raised
            /\ post_created(r.response)
            /\ post_calls' = Append(post_calls, PostCall(r))
            /\ network' = session_posts(r.posts)
    /\ successfully_created_posts_count' = successfully_created_posts_count + 1
    /\ post_i' = post_i + 1
    /\ main_pc' = "post"
    /\ UNCHANGED <<rewriter_vars, standalone_vars, adapter_vars, main_inputs, session, image_k,
                   images_uploaded_for_this_post, total_images_uploaded_count,
                   failed_post_files, media_calls>>

\* lines 166 to 185: the adapter answers None, or without ID
CreatePostFails ==
    /\ main_pc = "publish"
    /\ \E outcome \in CreateOutcomes :
        LET r == CreateAnswer(outcome)
        IN  /\ ~r.raised
            /\ ~post_created(r.response)
            /\ post_calls' = Append(post_calls, PostCall(r))
            /\ network' = session_posts(r.posts)
    /\ failed_post_files' = Failed("WordPress post creation failed/no success status")
    /\ post_i' = post_i + 1
    /\ main_pc' = "post"
    /\ UNCHANGED <<rewriter_vars, standalone_vars, adapter_vars, main_inputs, session, image_k,
                   images_uploaded_for_this_post, total_images_uploaded_count,
                   successfully_created_posts_count, media_calls>>

\* the adapter raises and nothing catches it: main ends
CreatePostRaises_uncaught ==
    /\ main_pc = "publish"
    /\ \E outcome \in CreateOutcomes :
        LET r == CreateAnswer(outcome)
        IN  /\ r.raised
            /\ post_calls' = Append(post_calls, PostCall(r))
            /\ network' = session_posts(r.posts)
    /\ main_pc' = "exit"
    /\ UNCHANGED <<rewriter_vars, standalone_vars, adapter_vars, main_inputs, session, post_i, image_k,
                   images_uploaded_for_this_post, total_images_uploaded_count,
                   successfully_created_posts_count, failed_post_files, media_calls>>

\* lines 166 to 189: the adapter raises, the except clause records it
CreatePostRaises ==
    /\ main_pc = "publish"
    /\ \E outcome \in CreateOutcomes :
        LET r == CreateAnswer(outcome)
        IN  /\ r.raised
            /\ post_calls' = Append(post_calls, PostCall(r))
            /\ network' = session_posts(r.posts)
    /\ failed_post_files' = Failed("Unexpected error")
    /\ post_i' = post_i + 1
    /\ main_pc' = "post"
    /\ UNCHANGED <<rewriter_vars, standalone_vars, adapter_vars, main_inputs, session, image_k,
                   images_uploaded_for_this_post, total_images_uploaded_count,
                   successfully_created_posts_count, media_calls>>

\* lines 191 to 209: the loop is over, the summary is printed
Summary ==
    /\ main_pc = "post"
    /\ post_i > Len(all_hugo_posts)
    /\ main_pc' = "exit"
    /\ UNCHANGED <<rewriter_vars, standalone_vars, adapter_vars, main_inputs, session, post_i, image_k,
                   images_uploaded_for_this_post, total_images_uploaded_count,
                   successfully_created_posts_count, failed_post_files, media_calls,
                   post_calls, network>>

NextMain ==
    \/ SkipAuthentication
    \/ ConnectToWordPress
    \/ NoPostsFound
    \/ StartLoop
    \/ ConversionEmpty
    \/ CallProcessHtmlImages
    \/ UploadImage
    \/ UploadImageRaises
    \/ ProcessHtmlImagesReturns
    \/ CreatePostSucceeds
    \/ CreatePostFails
    \/ CreatePostRaises
    \/ Summary

SpecMain == InitMain /\ [][NextMain]_vars

(***************************************************************************)
(* A program that calls the adapters itself, and may be run a second time. *)
(* The str hash of a process is drawn when a string is first hashed, and   *)
(* is drawn anew in the next process (hash randomization).                 *)
(***************************************************************************)
MaxCalls == 2

Sites == {site_with_dot, site_plain}

image_spaced == [path |-> <<"/", "w", "/", "c", "/", "a", " ", "b">>, name |-> <<"a", " ", "b">>]
image_gone   == [path |-> <<"/", "w", "/", "c", "/", "n">>, name |-> <<"n">>]
AdapterImages == {image_a, image_spaced, image_gone}

AdapterTitles == {Str(title_text), NoneValue}
AdapterDates  == {NoneValue, Str(date_iso)}

InitAdapters ==
    /\ RewriterIdle
    /\ MainIdle
    /\ AdaptersIdle
    /\ StandaloneIdle

CallsMade == Len(uploads) + Len(creations)

\* upload_image_to_wordpress(session, site_id, image_path, image_name, dry_run)
DirectUpload ==
    /\ CallsMade < MaxCalls
    /\ \E site \in Sites, image \in AdapterImages, dry \in BOOLEAN, outcome \in UploadOutcomes :
        LET r == upload_image_to_wordpress(site, image.path, image.name, dry, fs, outcome)
        IN  uploads' = Append(uploads,
                [process    |-> process_no,
                 site_id    |-> site,
                 image_path |-> image.path,
                 image_name |-> image.name,
                 dry_run    |-> dry,
                 raised     |-> r.raised,
                 response   |-> r.response,
                 posts      |-> r.posts])
    /\ UNCHANGED <<rewriter_vars, standalone_vars, main_vars, process_no, creations>>

\* hash(s) in this process: the value drawn when s was first hashed
hash_then(s, h) == IF s \in DOMAIN hash_of THEN hash_of ELSE (s :> h) @@ hash_of

\* create_wordpress_post(session, site_id, title, content_html, status, date,
\*                       dry_run=dry_run)
DirectCreate ==
    /\ CallsMade < MaxCalls
    /\ \E site \in Sites, t \in AdapterTitles, d \in AdapterDates, dry \in BOOLEAN,
          outcome \in CreateOutcomes, h \in HashValues :
        LET hashes == dry /\ t.type = "str"
            hash   == IF hashes THEN hash_then(t.str \o or_empty(d), h) ELSE hash_of
            r      == create_wordpress_post(site, t, Str(draft_status), d, dry, hash, outcome)
        IN  /\ hash_of' = hash
            /\ creations' = Append(creations,
                    [process  |-> process_no,
                     site_id  |-> site,
                     title    |-> t,
                     status   |-> Str(draft_status),
                     date     |-> d,
                     dry_run  |-> dry,
                     raised   |-> r.raised,
                     response |-> r.response,
                     posts    |-> r.posts])
    /\ UNCHANGED <<rewriter_vars, standalone_vars, process_no, uploads, args_dry_run, wordpress_site_id,
                   default_post_status, default_post_category_str, default_post_tags_str,
                   all_hugo_posts, session, main_pc, post_i, image_k,
                   images_uploaded_for_this_post, total_images_uploaded_count,
                   successfully_created_posts_count, failed_post_files, media_calls,
                   post_calls, network>>

\* the program ends and is started again: a new process, a new str hash
RestartProgram ==
    /\ process_no = 1
    /\ process_no' = 2
    /\ hash_of' = <<>>
    /\ UNCHANGED <<rewriter_vars, standalone_vars, uploads, creations, args_dry_run, wordpress_site_id,
                   default_post_status, default_post_category_str, default_post_tags_str,
                   all_hugo_posts, session, main_pc, post_i, image_k,
                   images_uploaded_for_this_post, total_images_uploaded_count,
                   successfully_created_posts_count, failed_post_files, media_calls,
                   post_calls, network>>

NextAdapters ==
    \/ DirectUpload
    \/ DirectCreate
    \/ RestartProgram

SpecAdapters == InitAdapters /\ [][NextAdapters]_vars
(***************************************************************************)
(* A program that calls the adapters in live mode, and keeps with each     *)
(* call what the network did when the adapter used it                      *)
(***************************************************************************)
\* upload_image_to_wordpress(session, site_id, image_path, image_name)
LiveUpload ==
    /\ main_pc = "idle"
    /\ CallsMade < MaxCalls
    /\ \E site \in Sites, image \in AdapterImages, outcome \in UploadOutcomes :
        LET r == upload_image_to_wordpress(site, image.path, image.name, FALSE, fs, outcome)
        IN  uploads' = Append(uploads,
                [process    |-> process_no,
                 site_id    |-> site,
                 image_path |-> image.path,
                 image_name |-> image.name,
                 dry_run    |-> FALSE,
                 network    |-> IF exists(image.path, fs) THEN outcome ELSE "unused",
                 raised     |-> r.raised,
                 response   |-> r.response,
                 posts      |-> r.posts])
    /\ UNCHANGED <<rewriter_vars, standalone_vars, main_vars, process_no, creations>>

\* create_wordpress_post(session, site_id, title, content_html, status, date)
LiveCreate ==
    /\ main_pc = "idle"
    /\ CallsMade < MaxCalls
    /\ \E site \in Sites, t \in AdapterTitles, d \in AdapterDates, outcome \in CreateOutcomes :
        LET r == create_wordpress_post(site, t, Str(draft_status), d, FALSE, hash_of, outcome)
        IN  creations' = Append(creations,
                [process  |-> process_no,
                 site_id  |-> site,
                 title    |-> t,
                 status   |-> Str(draft_status),
                 date     |-> d,
                 dry_run  |-> FALSE,
                 network  |-> outcome,
                 raised   |-> r.raised,
                 response |-> r.response,
                 posts    |-> r.posts])
    /\ UNCHANGED <<rewriter_vars, standalone_vars, main_vars, process_no, uploads>>

NextLive ==
    \/ LiveUpload
    \/ LiveCreate

SpecLive == InitAdapters /\ [][NextLive]_vars

(***************************************************************************)
(* One process: it runs main, or it is the program that calls the adapters *)
(* in live mode                                                            *)
(***************************************************************************)
InitProcess == InitMain \/ InitAdapters

NextProcess ==
    \/ SkipAuthentication
    \/ ConnectToWordPress
    \/ NoPostsFound
    \/ StartLoop
    \/ ConversionEmpty
    \/ CallProcessHtmlImages
    \/ UploadImage
    \/ UploadImageRaises
    \/ ProcessHtmlImagesReturns
    \/ CreatePostSucceeds
    \/ CreatePostFails
    \/ CreatePostRaises
    \/ Summary
    \/ LiveUpload
    \/ LiveCreate

SpecProcess == InitProcess /\ [][NextProcess]_vars
(***************************************************************************)
(* scan_hugo_content_path (hugo_content.py lines 37 to 63).  os.walk is    *)
(* given by what it yields, a sequence of (root, files); parse_hugo_file   *)
(* by its answer, a post or None.                                          *)
(***************************************************************************)
MaxDirs  == 2
MaxFiles == 2

\* s.endswith(suffix)
endswith(s, suffix) ==
    /\ Len(s) >= Len(suffix)
    /\ SubSeq(s, Len(s) - Len(suffix) + 1, Len(s)) = suffix

\* a test of the name as it is written, not lower-cased
is_markdown_case_sensitive(filename) == endswith(filename, <<".", "m", "d">>)

\* line 57: filename.lower().endswith(".md")
is_markdown(filename) == endswith(lower(filename), <<".", "m", "d">>)

FileNames ==
    {<<"a", ".", "m", "d">>, <<"B", ".", "M", "d">>, <<"c", ".", "t", "x", "t">>,
     <<"a", "m", "d">>}

\* lists of distinct names
FileLists ==
    {l \in UNION {[1..n -> FileNames] : n \in 0..MaxFiles} :
        \A i, j \in 1..Len(l) : l[i] = l[j] => i = j}

content_root == <<"/", "h">>
RootsOfWalk == [k \in 1..MaxDirs |-> IF k = 1 THEN content_root
                                     ELSE content_root \o <<"/", "s", ToString(k)>>]

\* what os.walk can yield for the content directory
Walks ==
    UNION {{[k \in 1..n |-> [root |-> RootsOfWalk[k], files |-> fl[k]]] :
                fl \in [1..n -> FileLists]} : n \in 1..MaxDirs}

\* the arguments of a call, and what is found there: no path, a path that
\* does not exist, a file, a directory
ScanInputs ==
    {[content_path |-> <<>>, path_kind |-> "missing", walk |-> <<>>],
     [content_path |-> <<"/", "n">>, path_kind |-> "missing", walk |-> <<>>],
     [content_path |-> <<"/", "f", ".", "m", "d">>, path_kind |-> "file", walk |-> <<>>]}
        \cup {[content_path |-> content_root, path_kind |-> "dir", walk |-> w] : w \in Walks}

InitScan ==
    /\ RewriterIdle
    /\ MainIdle
    /\ AdaptersIdle
    /\ first_call = NoFirstCall
    /\ ServerIdle
    /\ \E input \in ScanInputs :
        /\ content_path = input.content_path
        /\ path_kind = input.path_kind
        /\ walk = input.walk
    /\ scan_pc = "start"
    /\ walk_i = 1
    /\ file_i = 1
    /\ parsed_posts = <<>>
    /\ parse_calls = <<>>

scan_frame == <<rewriter_vars, main_vars, adapter_vars, first_call, server_vars,
                content_path, path_kind, walk>>

\* lines 47 to 49: no path, or nothing there
PathDoesNotExist ==
    /\ scan_pc = "start"
    /\ content_path = <<>> \/ path_kind = "missing"
    /\ scan_pc' = "done"
    /\ UNCHANGED <<scan_frame, walk_i, file_i, parsed_posts, parse_calls>>

\* lines 50 to 52
PathIsNotADirectory ==
    /\ scan_pc = "start"
    /\ ~(content_path = <<>> \/ path_kind = "missing")
    /\ path_kind # "dir"
    /\ scan_pc' = "done"
    /\ UNCHANGED <<scan_frame, walk_i, file_i, parsed_posts, parse_calls>>

\* lines 54 and 55: the walk begins
StartWalk ==
    /\ scan_pc = "start"
    /\ ~(content_path = <<>> \/ path_kind = "missing")
    /\ path_kind = "dir"
    /\ scan_pc' = "walk"
    /\ UNCHANGED <<scan_frame, walk_i, file_i, parsed_posts, parse_calls>>

InWalk  == scan_pc = "walk" /\ walk_i <= Len(walk)
InFiles == InWalk /\ file_i <= Len(walk[walk_i].files)
root     == walk[walk_i].root
filename == walk[walk_i].files[file_i]
file_path == join(root, filename)

\* line 57: the name does not end in ".md"
SkipOtherFile ==
    /\ InFiles
    /\ ~is_markdown(filename)
    /\ file_i' = file_i + 1
    /\ UNCHANGED <<scan_frame, scan_pc, walk_i, parsed_posts, parse_calls>>

\* lines 57 to 61: parse_hugo_file answers with a post
ParseFile ==
    /\ InFiles
    /\ is_markdown(filename)
    /\ parse_calls' = Append(parse_calls, [file_path |-> file_path, post |-> TRUE])
    /\ parsed_posts' = Append(parsed_posts, [filepath |-> file_path])
    /\ file_i' = file_i + 1
    /\ UNCHANGED <<scan_frame, scan_pc, walk_i>>

\* lines 57 to 60: parse_hugo_file answers None
ParseFileFails ==
    /\ InFiles
    /\ is_markdown(filename)
    /\ parse_calls' = Append(parse_calls, [file_path |-> file_path, post |-> FALSE])
    /\ file_i' = file_i + 1
    /\ UNCHANGED <<scan_frame, scan_pc, walk_i, parsed_posts>>

\* lines 55 and 56: the files of this directory are done
NextDirectory ==
    /\ InWalk
    /\ file_i > Len(walk[walk_i].files)
    /\ walk_i' = walk_i + 1
    /\ file_i' = 1
    /\ UNCHANGED <<scan_frame, scan_pc, parsed_posts, parse_calls>>

\* line 63: return parsed_posts
ReturnParsedPosts ==
    /\ scan_pc = "walk"
    /\ walk_i > Len(walk)
    /\ scan_pc' = "done"
    /\ UNCHANGED <<scan_frame, walk_i, file_i, parsed_posts, parse_calls>>

NextScan ==
    \/ PathDoesNotExist
    \/ PathIsNotADirectory
    \/ StartWalk
    \/ SkipOtherFile
    \/ ParseFile
    \/ ParseFileFails
    \/ NextDirectory
    \/ ReturnParsedPosts

SpecScan == InitScan /\ [][NextScan]_vars

(***************************************************************************)
(* launch_webserver_and_get_called_url (hugo2wpcom/main.py lines 39 to     *)
(* 78).  socketserver's serve_forever is the loop                          *)
(*     while not shutdown_request:                                         *)
(*         ready = select(); if shutdown_request: break                    *)
(*         if ready: handle one request                                    *)
(*     finally: shutdown_request = False                                   *)
(* and shutdown() sets shutdown_request from the thread it is called in.   *)
(* Nothing orders the thread started at line 63 against the loop.          *)
(***************************************************************************)
MaxRequests == 2

Methods == {"GET", "POST"}
callback_host == <<"127.0.0.1:p">>
Paths == {<<"/", "?code=1">>, <<"/", "favicon.ico">>}

\* a request, and whether its client is gone before the answer is written
Requests ==
    [method : Methods, host : {callback_host}, path : Paths, client_gone : BOOLEAN]

\* lines 52 to 55: urlunparse((scheme, host, path, '', '', ''))
url_of(request) == <<"http", "://">> \o request.host \o request.path

server_frame == <<rewriter_vars, main_vars, adapter_vars, scan_vars, first_call>>

\* lines 65 to 72: the server is bound and serve_forever runs in its thread
InitServer ==
    /\ RewriterIdle
    /\ MainIdle
    /\ AdaptersIdle
    /\ ScanIdle
    /\ first_call = NoFirstCall
    /\ backlog = <<>>
    /\ received = <<>>
    /\ server_pc = "while"
    /\ ready = FALSE
    /\ shutdown_request = FALSE
    /\ shutdown_threads = 0
    /\ called_url = None
    /\ handled = <<>>
    /\ returned = NotReturned

\* a client connects and sends its request
RequestArrives ==
    /\ ~returned.returned
    /\ Len(received) < MaxRequests
    /\ \E request \in Requests :
        /\ backlog' = Append(backlog, request)
        /\ received' = Append(received, request)
    /\ UNCHANGED <<server_frame, server_pc, ready, shutdown_request, shutdown_threads,
                   called_url, handled, returned>>

\* serve_forever: while not self.__shutdown_request
WhileNotShutdown ==
    /\ server_pc = "while"
    /\ server_pc' = IF shutdown_request THEN "finally" ELSE "select"
    /\ UNCHANGED <<server_frame, backlog, received, ready, shutdown_request,
                   shutdown_threads, called_url, handled, returned>>

\* serve_forever: ready = selector.select(poll_interval), a connection or
\* the timeout
SelectReturns ==
    /\ server_pc = "select"
    /\ ready' = (backlog # <<>>)
    /\ server_pc' = "selected"
    /\ UNCHANGED <<server_frame, backlog, received, shutdown_request, shutdown_threads,
                   called_url, handled, returned>>

\* serve_forever: if self.__shutdown_request: break; if ready: handle
AfterSelect ==
    /\ server_pc = "selected"
    /\ server_pc' = IF shutdown_request THEN "finally"
                    ELSE IF ready THEN "handle" ELSE "while"
    /\ UNCHANGED <<server_frame, backlog, received, ready, shutdown_request,
                   shutdown_threads, called_url, handled, returned>>

\* lines 50 to 63: do_GET keeps the URL, answers, and starts the thread
\* that calls shutdown
HandleGet ==
    /\ server_pc = "handle"
    /\ Head(backlog).method = "GET"
    /\ ~Head(backlog).client_gone
    /\ called_url' = Some(url_of(Head(backlog)))
    /\ handled' = Append(handled, url_of(Head(backlog)))
    /\ shutdown_threads' = shutdown_threads + 1
    /\ backlog' = Tail(backlog)
    /\ server_pc' = "while"
    /\ UNCHANGED <<server_frame, received, ready, shutdown_request, returned>>

\* lines 50 to 60: do_GET keeps the URL; writing the answer raises, so
\* line 63 is not reached; the server reports the error and goes on
HandleGetClientGone ==
    /\ server_pc = "handle"
    /\ Head(backlog).method = "GET"
    /\ Head(backlog).client_gone
    /\ called_url' = Some(url_of(Head(backlog)))
    /\ handled' = Append(handled, url_of(Head(backlog)))
    /\ backlog' = Tail(backlog)
    /\ server_pc' = "while"
    /\ UNCHANGED <<server_frame, received, ready, shutdown_request, shutdown_threads,
                   returned>>

\* line 46: a request that is not a GET is answered by the base class
HandleOtherMethod ==
    /\ server_pc = "handle"
    /\ Head(backlog).method # "GET"
    /\ backlog' = Tail(backlog)
    /\ server_pc' = "while"
    /\ UNCHANGED <<server_frame, received, ready, shutdown_request, shutdown_threads,
                   called_url, handled, returned>>

\* line 63: the thread runs server.shutdown, which sets the flag
ShutdownSetsFlag ==
    /\ shutdown_threads > 0
    /\ shutdown_threads' = shutdown_threads - 1
    /\ shutdown_request' = TRUE
    /\ UNCHANGED <<server_frame, backlog, received, server_pc, ready, called_url, handled,
                   returned>>

\* serve_forever: finally, the flag is reset and the thread ends
ServeForeverEnds ==
    /\ server_pc = "finally"
    /\ shutdown_request' = FALSE
    /\ server_pc' = "done"
    /\ UNCHANGED <<server_frame, backlog, received, ready, shutdown_threads, called_url,
                   handled, returned>>

\* lines 75 to 78: join returns, RequestHandler.called_url is returned
ReturnCalledUrl ==
    /\ server_pc = "done"
    /\ ~returned.returned
    /\ returned' = [returned |-> TRUE, url |-> IF called_url.none THEN <<>> ELSE called_url.val]
    /\ UNCHANGED <<server_frame, backlog, received, server_pc, ready, shutdown_request,
                   shutdown_threads, called_url, handled>>

NextServer ==
    \/ RequestArrives
    \/ WhileNotShutdown
    \/ SelectReturns
    \/ AfterSelect
    \/ HandleGet
    \/ HandleGetClientGone
    \/ HandleOtherMethod
    \/ ShutdownSetsFlag
    \/ ServeForeverEnds
    \/ ReturnCalledUrl

SpecServer == InitServer /\ [][NextServer]_vars



(***************************************************************************)
(* A live run of main on one document without images, over the front      *)
(* matters that the derivation of lines 124 to 162 tells apart             *)
(***************************************************************************)
TitleValues      == {Absent, Str(<<>>), Str(title_text)}
DateValues       == {Absent, Datetime(date_iso), Str(date_text), Str(<<"x">>), Str(<<>>)}
CategoriesValues ==
    {Absent, Str(<<"A", ",", " ", ",", "B">>), Str(<<>>), List(<<<<"A">>, <<" ">>>>), List(<<>>)}
CategoryValues   == {Absent, Str(<<" ", "C">>)}
TagsValues       == {Absent, Str(<<" ", "t", ",">>), List(<<<<"u", " ">>, <<>>>>)}
DraftValues      == {Absent, Bool(TRUE), Bool(FALSE), Str(<<"t", "r", "u", "e">>)}
StatusValues     == {Absent, Str(<<>>), Str(<<"P", "u", "b", "l", "i", "s", "h">>)}

FrontMatters ==
    {Meta(t, d, cs, c, tg, dr, st) :
        t \in TitleValues, d \in DateValues, cs \in CategoriesValues, c \in CategoryValues,
        tg \in TagsValues, dr \in DraftValues, st \in StatusValues}

pending_status == <<"p", "e", "n", "d", "i", "n", "g">>
DefaultCategoryStrings == {<<>>, <<"X", ",", " ", "Y">>}
DefaultTagsStrings     == {<<>>, <<"Z", ",">>}

InitNormalize ==
    /\ RewriterIdle
    /\ AdaptersIdle
    /\ StandaloneIdle
    /\ args_dry_run = FALSE
    /\ wordpress_site_id = site_with_dot
    /\ default_post_status = pending_status
    /\ default_post_category_str \in DefaultCategoryStrings
    /\ default_post_tags_str \in DefaultTagsStrings
    /\ all_hugo_posts \in {<<Post(post_path, FALSE, <<>>, md)>> : md \in FrontMatters}
    /\ hash_of = <<>>
    /\ MainStarts

NextNormalize ==
    \/ ConnectToWordPress
    \/ StartLoop
    \/ CallProcessHtmlImages
    \/ ProcessHtmlImagesReturns
    \/ CreatePostSucceeds
    \/ CreatePostFails
    \/ CreatePostRaises
    \/ Summary

SpecNormalize == InitNormalize /\ [][NextNormalize]_vars

(***************************************************************************)
(* Vocabulary of the properties.  It is written from what the properties   *)
(* say, independently of the operators the actions use.                    *)
(***************************************************************************)
\* the call has returned
Returned == pc = "done" /\ result.returned

\* the document given and the document returned
In  == html_content.val
Out == result.html

ImgPositions(doc) == {k \in 1..Len(doc) : doc[k].kind = "img"}

\* name and attributes agree
SameTag(a, b) ==
    /\ a.kind = b.kind
    /\ a.has_src = b.has_src /\ a.src = b.src
    /\ a.has_srcset = b.has_srcset /\ a.srcset = b.srcset

\* the uploader calls made for the tag at position k
CallsFor(k) == {j \in 1..Len(uploader_calls) : uploader_calls[j].tag = k}

\* the response carries a non-empty URL
HasUsableURL(resp) == ~resp.none /\ resp.has_URL /\ resp.URL # <<>>
SuccessfulCalls == {j \in 1..Len(uploader_calls) : HasUsableURL(uploader_calls[j].response)}

ExternalPrefixes ==
    {<<"h", "t", "t", "p", ":", "/", "/">>,
     <<"h", "t", "t", "p", "s", ":", "/", "/">>,
     <<"/", "/">>}

BeginsWith(s, p) == Len(s) >= Len(p) /\ \A j \in 1..Len(p) : s[j] = p[j]
HasExternalPrefix(s) == \E p \in ExternalPrefixes : BeginsWith(s, p)

\* the document as the serializer writes it
Reserialized(doc) ==
    [k \in 1..Len(doc) |-> [doc[k] EXCEPT !.form = IF doc[k].kind = "text" THEN "" ELSE "/>"]]

\* C1: every img tag returned is the input tag, or has the URL of its own
\* upload as src and no srcset; no tag gains a srcset
C1_RewrittenOrUntouched ==
    Returned =>
        /\ Len(Out) = Len(In)
        /\ \A k \in ImgPositions(Out) :
            /\ \/ SameTag(In[k], Out[k])
               \/ /\ Out[k].kind = In[k].kind
                  /\ Out[k].has_src
                  /\ ~Out[k].has_srcset
                  /\ \E j \in CallsFor(k) :
                        /\ uploader_calls[j].response.has_URL
                        /\ Out[k].src = uploader_calls[j].response.URL
            /\ ~In[k].has_srcset => ~Out[k].has_srcset

\* a tag with srcset was rewritten and lost it, next to a tag left as it was
C1_Witness ==
    /\ Returned
    /\ \E k \in ImgPositions(Out) :
        In[k].has_srcset /\ ~Out[k].has_srcset /\ Out[k].src \in RemoteURLs
    /\ \E k \in ImgPositions(Out) : In[k].has_src /\ SameTag(In[k], Out[k])

\* C2: the returned count is the number of img tags whose src changed
C2_CountIsChangedSrcs ==
    Returned =>
        result.count = Cardinality({k \in ImgPositions(Out) : Out[k].src # In[k].src})

\* one tag rewritten, one tag with a src left alone
C2_Witness ==
    /\ Returned
    /\ result.count = 1
    /\ \E k \in ImgPositions(Out) : In[k].has_src /\ Out[k].src = In[k].src

\* the document holds one img tag, and its src is external
SingleExternalImage ==
    /\ ~html_content.none
    /\ Cardinality(ImgPositions(In)) = 1
    /\ \A k \in ImgPositions(In) : In[k].has_src /\ HasExternalPrefix(In[k].src)

\* C3 as stated: one external image: no upload, count 0, the output is the
\* input byte for byte
C3_ExternalByteIdentical ==
    SingleExternalImage =>
        /\ uploader_calls = <<>>
        /\ Returned => result.count = 0 /\ Out = In

\* C3 as amended: one external image: no upload, count 0, the output is the
\* input reserialized, every tag with its name and attributes, and is the
\* input byte for byte when the input is written the serializer's way
C3_ExternalUntouched ==
    SingleExternalImage =>
        /\ uploader_calls = <<>>
        /\ Returned =>
            /\ result.count = 0
            /\ Out = Reserialized(In)
            /\ \A k \in 1..Len(In) : SameTag(In[k], Out[k])
            /\ In = Reserialized(In) => Out = In

\* a protocol-relative reference whose path names a file of a valid static
\* folder came back as it was
C3_Witness ==
    /\ Returned
    /\ pass = 1
    /\ SingleExternalImage
    /\ \E k \in ImgPositions(In) : BeginsWith(In[k].src, <<"/", "/">>)
    /\ static_path = Some(<<"/", "t">>)

(***************************************************************************)
(* Resolution, as the properties state it                                  *)
(***************************************************************************)
\* the part of a reference before its query and fragment, percent-decoded
PathOnly(r) ==
    LET cut == {k \in 1..Len(r) : r[k] \in {"?", "#"}}
        n   == IF cut = {} THEN Len(r) ELSE (CHOOSE k \in cut : \A j \in cut : k <= j) - 1
    IN  unquote([k \in 1..n |-> r[k]])

\* static_path is set and is an existing directory
StaticRootUsable == ~static_path.none /\ isdir(static_path.val, fs)

\* the local path a reference stands for
ExpectedPath(r) ==
    IF BeginsWith(PathOnly(r), <<"/">>)
    THEN join(static_path.val, Tail(PathOnly(r)))
    ELSE abspath(join(base_dir_for_images, PathOnly(r)))

\* a tag whose reference is local
LocalRefs == {k \in ImgPositions(In) : In[k].has_src /\ ~HasExternalPrefix(In[k].src)}

C5_SiteRootReference ==
    Returned =>
        /\ result.count = Cardinality(SuccessfulCalls)
        /\ \A k \in LocalRefs :
            LET c == PathOnly(In[k].src)
            IN  BeginsWith(c, <<"/">>) =>
                    IF StaticRootUsable
                    THEN /\ CallsFor(k) # {} <=> exists(join(static_path.val, Tail(c)), fs)
                         /\ \A j \in CallsFor(k) :
                                uploader_calls[j].path = join(static_path.val, Tail(c))
                    ELSE /\ CallsFor(k) = {}
                         /\ SameTag(In[k], Out[k])

\* "/i/s#f" was uploaded from "/t/i/s"
C5_Witness ==
    /\ Returned
    /\ \E j \in 1..Len(uploader_calls) :
        /\ In[uploader_calls[j].tag].src = src_static_frag
        /\ uploader_calls[j].path = <<"/", "t", "/", "i", "/", "s">>

\* the reference carries a query, a fragment or an escape
Decorated(r) == \E k \in 1..Len(r) : r[k] \in {"?", "#", "%"}

\* C6: for a local reference with a query, a fragment or an escape, the
\* existence check, the uploaded path and the uploaded name all come from
\* the cleaned path, never from the raw value
C6_CleanedPathOnly ==
    Returned =>
        \A k \in LocalRefs :
            LET r == In[k].src
            IN  Decorated(r) /\ (BeginsWith(PathOnly(r), <<"/">>) => StaticRootUsable) =>
                    /\ CallsFor(k) # {} <=> exists(ExpectedPath(r), fs)
                    /\ \A j \in CallsFor(k) :
                        /\ uploader_calls[j].path = ExpectedPath(r)
                        /\ uploader_calls[j].name = basename(PathOnly(r))
                        /\ r = src_query => uploader_calls[j].name = <<"a">>
                        /\ r = src_escaped => uploader_calls[j].name = <<"a", " ", "b">>

\* "a?v" was uploaded from "/w/c/a" under the name "a"
C6_Witness ==
    /\ Returned
    /\ \E j \in 1..Len(uploader_calls) :
        /\ In[uploader_calls[j].tag].src = src_query
        /\ uploader_calls[j].path = <<"/", "w", "/", "c", "/", "a">>
        /\ uploader_calls[j].name = <<"a">>

\* every reference of the document is external
AllExternal == \A k \in ImgPositions(In) : In[k].has_src => HasExternalPrefix(In[k].src)

\* C7: a second pass over the output of a first pass, all of whose references
\* are external, uploads nothing and returns that output unchanged, count 0
C7_SecondPassIdempotent ==
    pass = 2 /\ AllExternal =>
        /\ uploader_calls = <<>>
        /\ Returned => Out = In /\ result.count = 0

\* the second pass returned a document with a reference the first rewrote
C7_Witness ==
    /\ pass = 2
    /\ Returned
    /\ AllExternal
    /\ \E k \in ImgPositions(In) : In[k].src = url_two
    /\ static_path = Some(<<"/", "t">>)

NoImages == ImgPositions(In) = {}
EmptyOrAbsent == html_content.none \/ In = <<>>

\* C8 as stated: without img tags the HTML comes back unchanged, count 0;
\* empty or absent HTML gives ("", 0); the uploader is not invoked
C8_NoImagesUnchanged ==
    NoImages =>
        /\ uploader_calls = <<>>
        /\ Returned =>
            /\ result.count = 0
            /\ Out = In
            /\ EmptyOrAbsent => Out = <<>>

\* C8 as amended: without img tags the HTML comes back reserialized, which
\* is unchanged when it is written the serializer's way
C8_NoImagesReserialized ==
    NoImages =>
        /\ uploader_calls = <<>>
        /\ Returned =>
            /\ result.count = 0
            /\ Out = Reserialized(In)
            /\ In = Reserialized(In) => Out = In
            /\ EmptyOrAbsent => Out = <<>>

\* a document of text and a line break came back
C8_Witness ==
    /\ Returned
    /\ NoImages
    /\ \E k \in 1..Len(In) : In[k].kind = "br"
    /\ \E k \in 1..Len(In) : In[k].kind = "text"

\* C9: an upload answered without a usable URL leaves its tag as it was and
\* the count as it was, and the loop goes on
C9_FailedUploadUntouched ==
    /\ pc = "loop" => uploaded_images_count = Cardinality(SuccessfulCalls)
    /\ Returned => result.count = Cardinality(SuccessfulCalls)
    /\ \A j \in 1..Len(uploader_calls) :
        LET k == uploader_calls[j].tag
        IN  ~HasUsableURL(uploader_calls[j].response) =>
                /\ pc = "loop" => SameTag(In[k], soup[k]) /\ \E m \in 1..(idx - 1) : images[m] = k
                /\ Returned => SameTag(In[k], Out[k])

\* an upload answered {"message": ...} for a tag with srcset, which kept it
C9_Witness ==
    /\ Returned
    /\ \E j \in 1..Len(uploader_calls) :
        /\ uploader_calls[j].response = RespMessage
        /\ Out[uploader_calls[j].tag].has_srcset
    /\ \E j \in 1..Len(uploader_calls) : uploader_calls[j].response = RespEmptyURL
    /\ result.count = 0

\* the tag at position k is one the uploader is due for
Uploadable(k) ==
    /\ k \in LocalRefs
    /\ BeginsWith(PathOnly(In[k].src), <<"/">>) => StaticRootUsable
    /\ exists(ExpectedPath(In[k].src), fs)

\* the positions of the tags the loop has dealt with, in document order
Examined ==
    [m \in 1..(IF idx - 1 < Len(images) THEN idx - 1 ELSE Len(images)) |-> images[m]]

\* C10: whatever happened to the earlier tags, every tag is examined, and
\* the uploader is called once, in document order, for each uploadable tag
\* and for no other
C10_EveryImageExamined ==
    /\ pc \in {"loop", "done"} /\ ~(pc = "done" /\ EmptyOrAbsent) =>
        /\ images = [m \in 1..Cardinality(ImgPositions(In)) |->
                        CHOOSE k \in ImgPositions(In) :
                            Cardinality({q \in ImgPositions(In) : q < k}) = m - 1]
        /\ idx <= Len(images) + 1
        /\ [j \in 1..Len(uploader_calls) |-> uploader_calls[j].tag]
              = SelectSeq(Examined, Uploadable)
    /\ Returned /\ ~EmptyOrAbsent => idx = Len(images) + 1

\* after a first image whose upload failed, the second one was uploaded
C10_Witness ==
    /\ Returned
    /\ Len(images) >= 2
    /\ Len(uploader_calls) = 2
    /\ ~HasUsableURL(uploader_calls[1].response)
    /\ HasUsableURL(uploader_calls[2].response)

(***************************************************************************)
(* A failing uploader call and the sibling images                          *)
(***************************************************************************)
\* the uploader call of the tag the loop is at has thrown
UploaderThrew == pc = "raised"

\* the tags whose src is the URL of an upload made for them
RewrittenSoFar ==
    {k \in ImgPositions(soup) :
        \E j \in CallsFor(k) :
            HasUsableURL(uploader_calls[j].response) /\ soup[k].src = uploader_calls[j].response.URL}

\* C12: an uploader call that fails, by a failure value or by throwing,
\* does not abort the call: the remaining tags are examined and the HTML
\* is returned with the tags rewritten before the failure
C12_FailureKeepsSiblings ==
    /\ C10_EveryImageExamined
    /\ UploaderThrew =>
        /\ idx = Len(images) + 1
        /\ result.returned
        /\ \A k \in RewrittenSoFar : result.html[k].src = soup[k].src

(***************************************************************************)
(* Resolution as a function of the reference and the two directories       *)
(***************************************************************************)
\* the path and the name a reference r stands for under base directory b
\* and static folder sp: nothing else is read
ResolutionOf(r, b, sp) ==
    [path |-> IF BeginsWith(PathOnly(r), <<"/">>)
              THEN join(sp.val, Tail(PathOnly(r)))
              ELSE abspath(join(b, PathOnly(r))),
     name |-> basename(PathOnly(r))]

\* what the call j of the uploader was given
DerivedBy(j) == [path |-> uploader_calls[j].path, name |-> uploader_calls[j].name]

\* C13: the path and the name derived for a tag are a function of its raw
\* src, base_dir and static_path: the same whatever the other tags of the
\* document are and whatever their uploads answered
C13_ResolutionIsPure ==
    /\ \A j \in 1..Len(uploader_calls) :
          DerivedBy(j) = ResolutionOf(In[uploader_calls[j].tag].src,
                                      base_dir_for_images, static_path)
    /\ \A i, j \in 1..Len(uploader_calls) :
          In[uploader_calls[i].tag].src = In[uploader_calls[j].tag].src
              => DerivedBy(i) = DerivedBy(j)

\* the same reference twice in a document: the first upload failed, the
\* second succeeded, and both were derived alike
C13_Witness ==
    /\ Len(uploader_calls) = 2
    /\ In[uploader_calls[1].tag].src = In[uploader_calls[2].tag].src
    /\ ~HasUsableURL(uploader_calls[1].response)
    /\ HasUsableURL(uploader_calls[2].response)
    /\ DerivedBy(1) = DerivedBy(2)

(***************************************************************************)
(* Vocabulary of the properties of a run of main                           *)
(***************************************************************************)
PostPositions == 1..Len(all_hugo_posts)

\* the adapter calls made for the document at position j, in order
MediaCallsOf(j) == SelectSeq(media_calls, LAMBDA c : c.post = j)
PostCallsOf(j)  == SelectSeq(post_calls, LAMBDA c : c.post = j)

\* the entries of failed_post_files that name the document at position j
FailedEntries(j) == {k \in 1..Len(failed_post_files) : failed_post_files[k].post = j}

\* an adapter call made for the document at position j raised
RaisedFor(j) ==
    \/ \E k \in 1..Len(media_calls) : media_calls[k].post = j /\ media_calls[k].raised
    \/ \E k \in 1..Len(post_calls) : post_calls[k].post = j /\ post_calls[k].raised

\* the call came back with a post: an ID, or the mark of a simulation
ReportsPost(c) == ~c.raised /\ (c.ID # 0 \/ c.simulated)

\* a post was created for the document at position j
CreatedFor(j) ==
    \E k \in 1..Len(post_calls) :
        /\ post_calls[k].post = j
        /\ ReportsPost(post_calls[k])

\* the run went through the loop and is over
LoopOver ==
    /\ main_pc = "exit"
    /\ all_hugo_posts # <<>>
    /\ args_dry_run \/ session = "session"

\* the uploads of the document at position j that gave a usable URL
UsableUploadsOf(j) ==
    Cardinality({k \in 1..Len(media_calls) :
                    /\ media_calls[k].post = j
                    /\ ~media_calls[k].raised
                    /\ media_calls[k].URL # <<>>})

\* the document at position j went through the steps its own content and
\* its own adapter answers call for
ProcessedOnItsOwn(j) ==
    LET d  == all_hugo_posts[j]
        mc == MediaCallsOf(j)
        pcs == PostCallsOf(j)
    IN  IF d.empty THEN mc = <<>> /\ pcs = <<>>
        ELSE /\ Len(mc) <= Len(d.image_files)
             /\ \A k \in 1..Len(mc) :
                    /\ mc[k].image_path = d.image_files[k].path
                    /\ mc[k].raised => k = Len(mc)
             /\ Len(mc) < Len(d.image_files) => Len(mc) >= 1 /\ mc[Len(mc)].raised
             /\ IF \E k \in 1..Len(mc) : mc[k].raised
                THEN pcs = <<>>
                ELSE /\ Len(pcs) = 1
                     /\ pcs[1].content_html
                          = Str(<<"html", ToString(j), ToString(UsableUploadsOf(j))>>)

\* C11: a document whose processing raised is recorded as failed once, is
\* not counted as created, and the loop goes on: every document of the run
\* is processed as its own content and answers call for
C11_RaisingDocumentIsContained ==
    /\ \A j \in PostPositions :
          RaisedFor(j) =>
              /\ Cardinality(FailedEntries(j)) = 1
              /\ ~CreatedFor(j)
              /\ post_i > j
              /\ main_pc = "exit" => post_i = Len(all_hugo_posts) + 1
    /\ successfully_created_posts_count = Cardinality({j \in PostPositions : CreatedFor(j)})
    /\ LoopOver => \A j \in PostPositions : ProcessedOnItsOwn(j)

\* the upload of the first document raised; the second document was
\* uploaded and its post created
C11_Witness ==
    /\ LoopOver
    /\ Len(all_hugo_posts) = 2
    /\ \E k \in 1..Len(media_calls) : media_calls[k].post = 1 /\ media_calls[k].raised
    /\ Cardinality(FailedEntries(1)) = 1
    /\ UsableUploadsOf(2) >= 1
    /\ CreatedFor(2)
    /\ successfully_created_posts_count = 1

\* C14: in a dry run nothing goes over the network: no authentication, no
\* session.post in any adapter call made with dry_run, while every image
\* is still handed to the uploader, rewritten to the URL it answers with
\* and counted
C14_DryRunStaysOffline ==
    /\ \A k \in 1..Len(media_calls) : media_calls[k].dry_run => media_calls[k].posts = 0
    /\ \A k \in 1..Len(post_calls) : post_calls[k].dry_run => post_calls[k].posts = 0
    /\ args_dry_run =>
        /\ network = <<>>
        /\ session = "None"
        /\ \A k \in 1..Len(media_calls) :
              /\ media_calls[k].dry_run
              /\ ~media_calls[k].raised
              /\ media_calls[k].URL # <<>>
        /\ \A k \in 1..Len(post_calls) : post_calls[k].dry_run
        /\ LoopOver =>
              /\ \A j \in PostPositions :
                    ~all_hugo_posts[j].empty =>
                        Len(MediaCallsOf(j)) = Len(all_hugo_posts[j].image_files)
              /\ total_images_uploaded_count = Len(media_calls)

\* a dry run is over: two images went to the uploader and were counted, a
\* post was reported, and the network was not used
C14_Witness ==
    /\ args_dry_run
    /\ LoopOver
    /\ Len(media_calls) = 2
    /\ total_images_uploaded_count = 2
    /\ \E j \in PostPositions : CreatedFor(j)
    /\ network = <<>>

(***************************************************************************)
(* The answers of the adapters in a dry run                                *)
(***************************************************************************)
\* C15: two dry-run uploads with the same site, path and name, and two
\* dry-run post creations with the same site, title, status and date, give
\* the same answer, in one run of the program or in two
C15_DryRunIsDeterministic ==
    /\ \A i, j \in 1..Len(uploads) :
          /\ uploads[i].dry_run /\ uploads[j].dry_run
          /\ uploads[i].site_id = uploads[j].site_id
          /\ uploads[i].image_path = uploads[j].image_path
          /\ uploads[i].image_name = uploads[j].image_name
          => /\ uploads[i].raised = uploads[j].raised
             /\ uploads[i].response = uploads[j].response
    /\ \A i, j \in 1..Len(creations) :
          /\ creations[i].dry_run /\ creations[j].dry_run
          /\ creations[i].site_id = creations[j].site_id
          /\ creations[i].title = creations[j].title
          /\ creations[i].status = creations[j].status
          /\ creations[i].date = creations[j].date
          => /\ creations[i].raised = creations[j].raised
             /\ creations[i].response.ID = creations[j].response.ID
             /\ creations[i].response.URL = creations[j].response.URL

(***************************************************************************)
(* What main hands to create_wordpress_post, as the properties state it    *)
(***************************************************************************)
\* the front matter of the document a call of create_wordpress_post is for
MetadataOf(c) == all_hugo_posts[c.post].metadata

Present(v) == v.type # "absent"
PresentNonEmpty(v) == v.type = "str" /\ v.str # <<>>

\* the status of a boolean draft field
DraftOrPublish(v) == IF v.bool THEN Str(draft_status) ELSE Str(publish_status)

\* C16 as stated: a boolean draft decides; else a status field that is
\* present is lower-cased; else the default status
C16_StatusWhenPresent ==
    \A k \in 1..Len(post_calls) :
        LET md == MetadataOf(post_calls[k])
        IN  post_calls[k].status =
                IF md.draft.type = "bool" THEN DraftOrPublish(md.draft)
                ELSE IF Present(md.status) THEN Str(lower(md.status.str))
                ELSE Str(default_post_status)

\* C16 as amended: a boolean draft decides; else a status field that is
\* present and not empty is lower-cased; else (no status field, or an empty
\* one) the default status
C16_StatusPrecedence ==
    \A k \in 1..Len(post_calls) :
        LET md == MetadataOf(post_calls[k])
        IN  post_calls[k].status =
                IF md.draft.type = "bool" THEN DraftOrPublish(md.draft)
                ELSE IF PresentNonEmpty(md.status) THEN Str(lower(md.status.str))
                ELSE Str(default_post_status)

\* "draft: true" won over "status: Publish"
C16_Witness ==
    \E k \in 1..Len(post_calls) :
        /\ MetadataOf(post_calls[k]).draft = Bool(TRUE)
        /\ MetadataOf(post_calls[k]).status = Str(<<"P", "u", "b", "l", "i", "s", "h">>)
        /\ post_calls[k].status = Str(draft_status)

\* the entries of a list that are not empty, in order
Kept(l) == SelectSeq(l, LAMBDA x : x # <<>>)

\* the list a metadata value stands for: the trimmed segments of a string,
\* the trimmed elements of a list, the empty ones dropped
DerivedList(raw) ==
    CASE raw.type = "str"  -> Kept(split_and_strip(raw.str))
      [] raw.type = "list" -> Kept([k \in 1..Len(raw.list) |-> strip(raw.list[k])])
      [] OTHER             -> <<>>

\* the categories value of a front matter: 'categories' first, then 'category'
RawCategories(md) == IF Present(md.categories) THEN md.categories ELSE md.category

HasNoEmptyEntry(v) == v.type = "list" => \A k \in 1..Len(v.list) : v.list[k] # <<>>

\* C17: a list derived from the metadata is its trimmed segments or
\* elements without the empty ones, in order, and no list handed to
\* create_wordpress_post holds an empty string
C17_NoEmptyEntries ==
    \A k \in 1..Len(post_calls) :
        LET c  == post_calls[k]
            md == MetadataOf(c)
        IN  /\ DerivedList(RawCategories(md)) # <<>>
                => c.categories = List(DerivedList(RawCategories(md)))
            /\ DerivedList(md.tags) # <<>> => c.tags = List(DerivedList(md.tags))
            /\ HasNoEmptyEntry(c.categories)
            /\ HasNoEmptyEntry(c.tags)

\* the list of a default string: None when it is empty
DefaultOf(default_str) ==
    IF Kept(split_and_strip(default_str)) = <<>> THEN NoneValue
    ELSE List(Kept(split_and_strip(default_str)))

\* C18: without a categories field, or with one whose list is empty, the
\* categories are those of the default string, and likewise the tags; a
\* list of the metadata that is not empty gets nothing from the defaults
C18_FallbackToDefaults ==
    \A k \in 1..Len(post_calls) :
        LET c  == post_calls[k]
            md == MetadataOf(c)
        IN  /\ IF DerivedList(RawCategories(md)) = <<>>
               THEN c.categories = DefaultOf(default_post_category_str)
               ELSE Kept(c.categories.list) = DerivedList(RawCategories(md))
            /\ IF DerivedList(md.tags) = <<>>
               THEN c.tags = DefaultOf(default_post_tags_str)
               ELSE Kept(c.tags.list) = DerivedList(md.tags)

\* C19: the payload has title, content and status; it has date, categories
\* or tags exactly when main hands over a value that is not empty, with
\* that value; None or an empty result never becomes a field
C19_PayloadFields ==
    \A k \in 1..Len(post_calls) :
        LET c == post_calls[k]
            p == c.payload
        IN  /\ {"title", "content", "status"} \subseteq DOMAIN p
            /\ DOMAIN p \subseteq {"title", "content", "status", "date", "categories", "tags"}
            /\ p["title"] = c.title /\ p["content"] = c.content_html /\ p["status"] = c.status
            /\ "date" \in DOMAIN p <=> c.date.type = "str" /\ c.date.str # <<>>
            /\ "categories" \in DOMAIN p <=> c.categories.type = "list" /\ c.categories.list # <<>>
            /\ "tags" \in DOMAIN p <=> c.tags.type = "list" /\ c.tags.list # <<>>
            /\ "date" \in DOMAIN p => p["date"] = c.date
            /\ "categories" \in DOMAIN p => p["categories"] = c.categories
            /\ "tags" \in DOMAIN p => p["tags"] = c.tags
            /\ c.categories # List(<<>>) /\ c.tags # List(<<>>)
            /\ ~Present(MetadataOf(c).date) => "date" \notin DOMAIN p

\* an empty categories list and no defaults, no date: the payload has
\* neither field; the tags of the front matter are in it
C19_Witness ==
    \E k \in 1..Len(post_calls) :
        /\ MetadataOf(post_calls[k]).categories = List(<<>>)
        /\ default_post_category_str = <<>>
        /\ ~Present(MetadataOf(post_calls[k]).date)
        /\ DOMAIN post_calls[k].payload = {"title", "content", "status", "tags"}
        /\ post_calls[k].payload["tags"] = List(<<<<"u">>>>)

\* C20: the title handed to create_wordpress_post is the title field when
\* it is present and not empty, and the name of the file otherwise
C20_TitleOrFileName ==
    \A k \in 1..Len(post_calls) :
        LET c  == post_calls[k]
            md == MetadataOf(c)
        IN  c.title = IF PresentNonEmpty(md.title) THEN md.title
                      ELSE Str(basename(all_hugo_posts[c.post].filepath))

(***************************************************************************)
(* The date main hands to create_wordpress_post                            *)
(***************************************************************************)
\* the dates that can be read, and the ISO form they are read as
ReadableDate(v) == v.type = "str" /\ v.str \in {date_text, date_iso}
IsoOf(v) == IF v.type = "datetime" THEN v.str ELSE date_iso

\* the date the property asks for, and whether it asks for a diagnostic
ExpectedDate(v) ==
    IF v.type = "datetime" \/ ReadableDate(v) THEN Str(IsoOf(v)) ELSE NoneValue

\* whatever its date, every document of the run came to its call of
\* create_wordpress_post
NoDocumentFailsOnItsDate ==
    LoopOver => \A j \in PostPositions : Len(PostCallsOf(j)) = 1

\* C21 as stated: the date is the ISO form of a datetime or of a value that
\* can be read; any other present value gives a diagnostic and no date; no
\* document fails on its date
C21_DateWhenPresent ==
    /\ NoDocumentFailsOnItsDate
    /\ \A k \in 1..Len(post_calls) :
        LET c == post_calls[k]
            d == MetadataOf(c).date
        IN  /\ c.date = ExpectedDate(d)
            /\ Present(d) => (c.date_warning <=> c.date = NoneValue)

\* C21 as amended: as stated, but a present date that is empty is left out
\* without a diagnostic, as an absent one is
C21_DateNormalization ==
    /\ NoDocumentFailsOnItsDate
    /\ \A k \in 1..Len(post_calls) :
        LET c == post_calls[k]
            d == MetadataOf(c).date
        IN  /\ c.date = ExpectedDate(d)
            /\ c.date_warning <=> (PresentNonEmpty(d) /\ c.date = NoneValue)

\* a post was created for a document whose date could not be read: the
\* diagnostic was given and the call had no date
C21_Witness ==
    /\ LoopOver
    /\ \E k \in 1..Len(post_calls) :
        /\ MetadataOf(post_calls[k]).date = Str(<<"x">>)
        /\ post_calls[k].date_warning
        /\ post_calls[k].date = NoneValue
        /\ ReportsPost(post_calls[k])

(***************************************************************************)
(* The answers of create_wordpress_post in live mode                       *)
(***************************************************************************)
\* the failures of the network that the property names
NamedFailures == {"RequestException", "HTTPError", "ValueError"}

\* the response that was decoded, when one was
DecodedResponse(c) ==
    CASE c.network = "json_with_ID"    -> PostDict(TRUE, 42, live_post_url, FALSE)
      [] c.network = "json_without_ID" -> PostDict(FALSE, 0, <<>>, FALSE)
      [] OTHER                         -> c.response

\* C22: a live call of create_wordpress_post raises nothing; it returns None
\* when session.post raised RequestException, raise_for_status raised
\* HTTPError or the decoding raised ValueError, and the decoded response
\* otherwise
C22_LiveFailuresAreReturned ==
    \A k \in 1..Len(creations) :
        LET c == creations[k]
        IN  ~c.dry_run =>
                /\ ~c.raised
                /\ IF c.network \in NamedFailures THEN c.response = PostNone
                   ELSE ~c.response.none /\ c.response = DecodedResponse(c)

(***************************************************************************)
(* One call, one attempt                                                   *)
(***************************************************************************)
\* the calls of session.post that the network saw
SessionPostsSeen == Cardinality({k \in 1..Len(network) : network[k] = "session.post"})

\* the calls of the adapters, made by main, that used session.post
CallsThatPosted ==
    Cardinality({k \in 1..Len(media_calls) : media_calls[k].posts # 0})
        + Cardinality({k \in 1..Len(post_calls) : post_calls[k].posts # 0})

\* the absolute name of an entry of the filesystem
RECURSIVE AbsoluteName(_)
AbsoluteName(entry) ==
    IF entry = <<>> THEN <<>> ELSE <<"/">> \o Head(entry) \o AbsoluteName(Tail(entry))

\* the file of a direct upload is there
FileIsThere(c) == \E entry \in fs.files : AbsoluteName(entry) = c.image_path

\* C23: a live call of create_wordpress_post issues exactly one
\* session.post, a live call of upload_image_to_wordpress at most one and
\* none when the file is missing; in a run of main there is at most one
\* uploader call for each image reference of a document and at most one
\* call of create_wordpress_post for each document, whatever the calls
\* answered, and the network saw one session.post for each call that posted
C23_OneCallOneAttempt ==
    /\ \A k \in 1..Len(creations) : ~creations[k].dry_run => creations[k].posts = 1
    /\ \A k \in 1..Len(uploads) :
          ~uploads[k].dry_run =>
              /\ uploads[k].posts <= 1
              /\ ~FileIsThere(uploads[k]) => uploads[k].posts = 0
    /\ \A k \in 1..Len(post_calls) : ~post_calls[k].dry_run => post_calls[k].posts = 1
    /\ \A k \in 1..Len(media_calls) : ~media_calls[k].dry_run => media_calls[k].posts <= 1
    /\ \A j \in PostPositions :
          /\ Len(PostCallsOf(j)) <= 1
          /\ Len(MediaCallsOf(j)) <= Len(all_hugo_posts[j].image_files)
    /\ SessionPostsSeen = CallsThatPosted

\* a live run of main is over: an upload failed, the post creation of the
\* same document failed, and each had used session.post once
C23_Witness ==
    /\ LoopOver
    /\ ~args_dry_run
    /\ \E j \in PostPositions :
          /\ \E k \in 1..Len(media_calls) :
                /\ media_calls[k].post = j
                /\ media_calls[k].URL = <<>>
                /\ media_calls[k].posts = 1
          /\ Len(PostCallsOf(j)) = 1
          /\ ~ReportsPost(PostCallsOf(j)[1])
          /\ PostCallsOf(j)[1].posts = 1

(***************************************************************************)
(* What scan_hugo_content_path returns                                     *)
(***************************************************************************)
\* the files of the walk, in the order of the walk, by their paths
RECURSIVE WalkedFrom(_)
WalkedFrom(k) ==
    IF k > Len(walk) THEN <<>>
    ELSE [i \in 1..Len(walk[k].files) |-> walk[k].root \o <<"/">> \o walk[k].files[i]]
            \o WalkedFrom(k + 1)

\* the name ends in ".md", in upper or lower case
EndsInMd(path) ==
    /\ Len(path) >= 3
    /\ path[Len(path) - 2] = "."
    /\ path[Len(path) - 1] \in {"m", "M"}
    /\ path[Len(path)] \in {"d", "D"}

ParsedWithAPost(call) == call.post

ScanReturned == scan_pc = "done"
ScanRejected == content_path = <<>> \/ path_kind # "dir"

\* C24: the list returned has, in the order of the walk, one entry for each
\* file whose name ends in ".md" in any case and for which parse_hugo_file
\* gave a post, and nothing else; for no path, a path that does not exist or
\* one that is not a directory it is empty and parse_hugo_file was not called
C24_ScanReturnsParsedMarkdown ==
    ScanReturned =>
        IF ScanRejected THEN parsed_posts = <<>> /\ parse_calls = <<>>
        ELSE LET markdown == SelectSeq(WalkedFrom(1), EndsInMd)
                 with_post == SelectSeq(parse_calls, ParsedWithAPost)
             IN  /\ [k \in 1..Len(parse_calls) |-> parse_calls[k].file_path] = markdown
                 /\ parsed_posts =
                        [k \in 1..Len(with_post) |-> [filepath |-> with_post[k].file_path]]

\* a scan of two directories returned: a file in upper case was taken, a
\* file that did not parse was left out, a file of another kind was skipped
C24_Witness ==
    /\ ScanReturned
    /\ Len(walk) = 2
    /\ Len(parsed_posts) = 2
    /\ \E k \in 1..Len(parsed_posts) : parsed_posts[k].filepath = <<"/", "h", "/", "B", ".", "M", "d">>
    /\ \E k \in 1..Len(parse_calls) : ~parse_calls[k].post
    /\ Len(WalkedFrom(1)) > Len(parse_calls)

(***************************************************************************)
(* The order of the adapter calls of a run of main                         *)
(***************************************************************************)
\* the adapter calls of the run: when each was made, and for which document
AdapterCalls ==
    {[kind |-> "upload", at |-> media_calls[k].at, post |-> media_calls[k].post] :
        k \in 1..Len(media_calls)}
    \cup {[kind |-> "create", at |-> post_calls[k].at, post |-> post_calls[k].post] :
        k \in 1..Len(post_calls)}

\* the HTML process_html_images returned for the document at position j
HtmlReturnedFor(j) == Str(<<"html", ToString(j), ToString(UsableUploadsOf(j))>>)

\* C25: the adapter calls of a run are made one after the other; the
\* uploader calls of a document come before its call of
\* create_wordpress_post, which is given the HTML process_html_images
\* returned for that document; and every call for a document comes before
\* every call for a later one
C25_StrictlySequential ==
    /\ Cardinality(AdapterCalls) = Len(media_calls) + Len(post_calls)
    /\ \A c, d \in AdapterCalls :
          /\ c # d => c.at # d.at
          /\ c.post = d.post /\ c.kind = "upload" /\ d.kind = "create" => c.at < d.at
          /\ c.post < d.post => c.at < d.at
    /\ \A k \in 1..Len(post_calls) :
          post_calls[k].content_html = HtmlReturnedFor(post_calls[k].post)

\* a run over two documents is over: two uploads and then the post of the
\* first, an upload and then the post of the second
C25_Witness ==
    /\ LoopOver
    /\ Len(MediaCallsOf(1)) = 2
    /\ UsableUploadsOf(1) = 1
    /\ Len(PostCallsOf(1)) = 1
    /\ PostCallsOf(1)[1].at = 3
    /\ Len(MediaCallsOf(2)) >= 1
    /\ MediaCallsOf(2)[1].at = 4
    /\ Len(PostCallsOf(2)) = 1

(***************************************************************************)
(* The two modes of process_html_images                                    *)
(***************************************************************************)
\* what the uploader was called with: the local path and the file name
CalledWith(calls) == [k \in 1..Len(calls) |-> <<calls[k].path, calls[k].name>>]

\* both calls have returned
BothModesReturned == pc = "done" /\ ~first_call.none /\ result.returned

\* C26: the same call made with dry_run true and with dry_run false, the
\* uploader answering alike, calls the uploader with the same local paths
\* and file names in the same order and returns the same HTML and the same
\* count; every uploader call is given the dry_run of the call it is made in
C26_ModeDoesNotDecide ==
    /\ \A k \in 1..Len(uploader_calls) : uploader_calls[k].dry_run = dry_run
    /\ ~first_call.none =>
          \A k \in 1..Len(first_call.calls) : first_call.calls[k].dry_run = ~dry_run
    /\ BothModesReturned =>
          /\ CalledWith(uploader_calls) = CalledWith(first_call.calls)
          /\ result.html = first_call.result.html
          /\ result.count = first_call.result.count

\* both calls have returned, each after an upload that answered with a URL
\* and one that did not
C26_Witness ==
    /\ BothModesReturned
    /\ Len(uploader_calls) = 2
    /\ result.count = 1
    /\ first_call.result.count = 1
    /\ result.html # html_content.val

(***************************************************************************)
(* What launch_webserver_and_get_called_url returns                        *)
(***************************************************************************)
\* the GET requests, in the order they were received, by their URLs
GetsReceived ==
    LET IsGet(request) == request.method = "GET"
        gets == SelectSeq(received, IsGet)
    IN  [k \in 1..Len(gets) |-> <<"http", "://">> \o gets[k].host \o gets[k].path]

\* C27: the function returns only after a GET request was handled, it
\* handles no second one, and the URL it returns is the URL of the first GET
\* request that was received, whatever arrives while the server is stopped
C27_ReturnsFirstRequest ==
    /\ Len(handled) <= 1
    /\ returned.returned =>
          /\ handled # <<>>
          /\ returned.url = GetsReceived[1]

(***************************************************************************)
(* The counts of a run of main                                             *)
(***************************************************************************)
\* the run has come to its loop over the documents
InOrAfterLoop ==
    /\ main_pc \in {"post", "exit"}
    /\ all_hugo_posts # <<>>
    /\ args_dry_run \/ session = "session"

\* C28: once the loop is over, the posts counted as created and the entries
\* of failed_post_files are together as many as the documents scanned; each
\* document has a post created for it or one entry of failed_post_files,
\* never both; and while the loop runs the same holds of the documents it
\* has gone through
C28_EveryDocumentOnce ==
    /\ InOrAfterLoop =>
          successfully_created_posts_count + Len(failed_post_files) = post_i - 1
    /\ LoopOver =>
          /\ successfully_created_posts_count + Len(failed_post_files) = Len(all_hugo_posts)
          /\ \A j \in PostPositions :
                /\ Cardinality(FailedEntries(j)) <= 1
                /\ CreatedFor(j) <=> FailedEntries(j) = {}

\* a run over two documents is over: a post was created for one, the other
\* is in failed_post_files
C28_Witness ==
    /\ LoopOver
    /\ Len(all_hugo_posts) = 2
    /\ successfully_created_posts_count = 1
    /\ Len(failed_post_files) = 1
    /\ CreatedFor(2)
    /\ FailedEntries(1) # {}

\* the uploader calls of the run that answered with a URL
UsableUploads ==
    Cardinality({k \in 1..Len(media_calls) :
                    ~media_calls[k].raised /\ media_calls[k].URL # <<>>})

\* C29: once the loop is over, total_images_uploaded_count is the number of
\* uploader calls of the run that answered with a usable URL, whether the
\* adapter calls returned success, returned failure or raised
C29_TotalCountsUsableUploads ==
    LoopOver => total_images_uploaded_count = UsableUploads

(***************************************************************************)
(* References that name no file                                            *)
(***************************************************************************)
\* the img tags of the document given whose reference has an empty path
NamelessTags == {k \in ImgPositions(In) : In[k].has_src /\ PathOnly(In[k].src) = <<>>}

\* C30: the uploader is never called with an empty file name; an img tag
\* whose reference has an empty path (an empty src, only a fragment, only a
\* query) is not handed to the uploader, comes back as it was given and is
\* not counted, whatever base_dir_for_images and the filesystem are
C30_NeverAnEmptyFilename ==
    /\ \A k \in 1..Len(uploader_calls) :
          /\ uploader_calls[k].name # <<>>
          /\ uploader_calls[k].tag \notin NamelessTags
    /\ Returned =>
          /\ \A k \in NamelessTags :
                /\ Out[k].src = In[k].src
                /\ Out[k].has_srcset = In[k].has_srcset
                /\ Out[k].srcset = In[k].srcset
          /\ result.count <= Cardinality(ImgPositions(In) \ NamelessTags)

====
